---- MODULE Spec2Model ----
(***************************************************************************)
(* Model of the todo CLI's Asana client (src/src/asana.rs), of the         *)
(* file-based authorization lock (src/src/cache.rs), of the focus          *)
(* resolution and of the commands (src/src/commands, src/src/context.rs,   *)
(* src/src/main.rs).                                                       *)
(*                                                                         *)
(* Time is in seconds.  Option<T> is a sequence of length 0 or 1, a        *)
(* Result is a tuple tagged "Ok" or "Err", Credentials is a tuple tagged   *)
(* with the variant name.                                                  *)
(***************************************************************************)
EXTENDS Integers, Sequences, FiniteSets, TLC

\* ------------------------------------------------------------------ bounds
MaxToken == 2
MaxNow == 300
MaxFields == 2
MaxSections == 2
MaxTasks == 3
MaxGroup == 3
MaxSubtasks == 2
MaxCached == 2

\* ------------------------------------------------------- program constants
UNAUTHORIZED == 401
REFRESH_COOLDOWN == 300
AUTH_LOCK_MAX_AGE == 300
START_HOUR_FOR_EOD == 20

\* ------------------------------------------------------------ basic values
None == <<>>

Some(x) == <<x>>

Ok(v) == <<"Ok", v>>

Err(kind, msg) == <<"Err", kind, msg>>

IsOk(r) == r[1] = "Ok"

Tokens == 1..MaxToken

OptTokens == {None} \cup {Some(t) : t \in Tokens}

OAuth2(access_token, refresh_token) == <<"OAuth2", access_token, refresh_token>>

PersonalAccessToken(token) == <<"PersonalAccessToken", token>>

Credentials ==
    {OAuth2(a, r) : a \in Tokens, r \in OptTokens}
        \cup {PersonalAccessToken(t) : t \in Tokens}

IsOAuth2(c) == c[1] = "OAuth2"

\* ------------------------------------------------------------- environment
Urls == {"u1"}

Methods == {"POST", "PUT"}

Statuses == {200, UNAUTHORIZED, 500}

\* "d1" is a body of the shape {data: ...}; "errs" is any other body.
Bodies == {"d1", "errs"}

DataBodies == {"d1"}

\* What send() produces: a response with a status and a body, or no response.
SendFailed == [sent |-> FALSE, status |-> 0, body |-> "errs"]

Responses ==
    {SendFailed} \cup
        {[sent |-> TRUE, status |-> s, body |-> b] : s \in Statuses, b \in Bodies}

\* What the authorization server, the browser, the operator and the HTTP
\* client builder do during one reauthentication.
\*   fail = "exchange": the token endpoint rejects the exchange
\*   fail = "browser" : the terminal write or open::that_detached fails
\*   fail = "input"   : the operator's input cannot be read
\*   fail = "http"    : reqwest's ClientBuilder::build fails
AuthEnvs ==
    {[fail |-> "none", access_token |-> a, refresh_token |-> r] :
        a \in Tokens, r \in OptTokens}
    \cup {[fail |-> "http", access_token |-> a, refresh_token |-> None] :
        a \in Tokens}
    \cup {[fail |-> f, access_token |-> 1, refresh_token |-> None] :
        f \in {"exchange", "browser", "input"}}

\* response.json::<DataWrapper<D::ResponseData>>(): the status is not looked
\* at, the body decodes iff it has the {data: ...} shape.
json(response) ==
    IF response.body \in DataBodies
    THEN Ok(response.body)
    ELSE Err("decode", "error decoding response body")

\* ---------------------------------------------------------- authorization
\* execute_authorization_flow: open the browser, prompt for the code,
\* exchange it; the credential carries whatever refresh token came back.
execute_authorization_flow(env) ==
    IF env.fail = "browser"
    THEN [result |-> Err("flow", "could not open authorization URL in the browser"),
          events |-> <<"open_browser">>]
    ELSE IF env.fail = "input"
    THEN [result |-> Err("flow", "input"),
          events |-> <<"open_browser", "prompt">>]
    ELSE IF env.fail = "exchange"
    THEN [result |-> Err("flow", "could not exchange authorization code for an access token"),
          events |-> <<"open_browser", "prompt", "exchange_code">>]
    ELSE [result |-> Ok(OAuth2(env.access_token, env.refresh_token)),
          events |-> <<"open_browser", "prompt", "exchange_code">>]

\* refresh_authorization as it would be if the response's refresh token were
\* stored as it came, absent or not.
refresh_authorization_drops_token(refresh_token, env) ==
    IF env.fail = "exchange"
    THEN [result |-> Err("exchange", "could not exchange refresh token for an access token"),
          events |-> <<"exchange_refresh_token">>]
    ELSE [result |-> Ok(OAuth2(env.access_token, env.refresh_token)),
          events |-> <<"exchange_refresh_token">>]

\* refresh_authorization: exchange the refresh token; keep it when the
\* response carries no new one.
refresh_authorization(refresh_token, env) ==
    IF env.fail = "exchange"
    THEN [result |-> Err("exchange", "could not exchange refresh token for an access token"),
          events |-> <<"exchange_refresh_token">>]
    ELSE [result |-> Ok(OAuth2(env.access_token,
                               Some(IF env.refresh_token # None
                                    THEN env.refresh_token[1]
                                    ELSE refresh_token))),
          events |-> <<"exchange_refresh_token">>]

\* ------------------------------------------------------------------ client
\* Client::new
NewClient(credentials) ==
    [credentials |-> credentials, http |-> "new", last_refresh_attempt |-> None]

\* Client::refresh as it would be if the refresh token were taken out of
\* the credential before the exchange and put back only on success.
refresh_partial_update(self, env) ==
    IF IsOAuth2(self.credentials)
    THEN LET auth == IF self.credentials[3] # None
                     THEN refresh_authorization(self.credentials[3][1], env)
                     ELSE execute_authorization_flow(env)
         IN  IF ~IsOk(auth.result)
             THEN [self |-> [self EXCEPT !.credentials = OAuth2(@[2], None)],
                   result |-> auth.result, events |-> auth.events]
             ELSE IF env.fail = "http"
             THEN [self |-> [self EXCEPT !.credentials = auth.result[2]],
                   result |-> Err("http", "could not build Asana client"),
                   events |-> auth.events]
             ELSE [self |-> [self EXCEPT !.credentials = auth.result[2],
                                         !.http = "rebuilt"],
                   result |-> Ok("unit"),
                   events |-> auth.events]
    ELSE [self |-> self,
          result |-> Err("UnableToRefreshAccessToken", "not using OAuth2 flow"),
          events |-> <<>>]

\* Client::refresh as it would be if a static token restarted the
\* interactive flow like an OAuth2 credential without refresh token.
refresh_pat_restarts_flow(self, env) ==
    LET auth == IF IsOAuth2(self.credentials) /\ self.credentials[3] # None
                THEN refresh_authorization(self.credentials[3][1], env)
                ELSE execute_authorization_flow(env)
    IN  IF ~IsOk(auth.result)
        THEN [self |-> self, result |-> auth.result, events |-> auth.events]
        ELSE IF env.fail = "http"
        THEN [self |-> [self EXCEPT !.credentials = auth.result[2]],
              result |-> Err("http", "could not build Asana client"),
              events |-> auth.events]
        ELSE [self |-> [self EXCEPT !.credentials = auth.result[2],
                                    !.http = "rebuilt"],
              result |-> Ok("unit"),
              events |-> auth.events]

\* Client::refresh as it would be if the stored refresh token were ignored
\* and the interactive flow always restarted.
refresh_always_flow(self, env) ==
    IF IsOAuth2(self.credentials)
    THEN LET auth == execute_authorization_flow(env)
         IN  IF ~IsOk(auth.result)
             THEN [self |-> self, result |-> auth.result, events |-> auth.events]
             ELSE IF env.fail = "http"
             THEN [self |-> [self EXCEPT !.credentials = auth.result[2]],
                   result |-> Err("http", "could not build Asana client"),
                   events |-> auth.events]
             ELSE [self |-> [self EXCEPT !.credentials = auth.result[2],
                                         !.http = "rebuilt"],
                   result |-> Ok("unit"),
                   events |-> auth.events]
    ELSE [self |-> self,
          result |-> Err("UnableToRefreshAccessToken", "not using OAuth2 flow"),
          events |-> <<>>]

\* Client::refresh.  The function never assigns last_refresh_attempt.
refresh(self, env) ==
    IF IsOAuth2(self.credentials)
    THEN LET auth == IF self.credentials[3] # None
                     THEN refresh_authorization(self.credentials[3][1], env)
                     ELSE execute_authorization_flow(env)
         IN  IF ~IsOk(auth.result)
             THEN [self |-> self, result |-> auth.result, events |-> auth.events]
             ELSE IF env.fail = "http"
             THEN [self |-> [self EXCEPT !.credentials = auth.result[2]],
                   result |-> Err("http", "could not build Asana client"),
                   events |-> auth.events]
             ELSE [self |-> [self EXCEPT !.credentials = auth.result[2],
                                         !.http = "rebuilt"],
                   result |-> Ok("unit"),
                   events |-> auth.events]
    ELSE [self |-> self,
          result |-> Err("UnableToRefreshAccessToken", "not using OAuth2 flow"),
          events |-> <<>>]

\* Client::get as it would be if the error of refresh were dropped and the
\* GET retried anyway.
get_retry_after_failed_refresh(self, time, url, env) ==
    IF ~env.r1.sent
    THEN [self |-> self, result |-> Err("transport", "failed to make request"),
          events |-> <<"GET", url>>, reauth |-> None]
    ELSE IF env.r1.status = UNAUTHORIZED
    THEN IF /\ self.last_refresh_attempt # None
            /\ self.last_refresh_attempt[1] + REFRESH_COOLDOWN > time
         THEN [self |-> self,
               result |-> Err("UnableToRefreshAccessToken", "unauthorized"),
               events |-> <<"GET", url>>, reauth |-> None]
         ELSE LET r == refresh(self, env.auth)
              IN  IF ~env.r2.sent
                  THEN [self |-> r.self,
                        result |-> Err("transport", "failed to make request"),
                        events |-> <<"GET", url, "refresh">> \o r.events \o <<"GET", url>>,
                        reauth |-> Some(r.result)]
                  ELSE [self |-> r.self, result |-> json(env.r2),
                        events |-> <<"GET", url, "refresh">> \o r.events \o <<"GET", url>>,
                        reauth |-> Some(r.result)]
    ELSE [self |-> self, result |-> json(env.r1), events |-> <<"GET", url>>,
          reauth |-> None]

\* Client::get.  env.r1 answers the first GET, env.auth the reauthentication,
\* env.r2 the second GET.  reauth is what self.refresh() returned, when called.
get(self, time, url, env) ==
    IF ~env.r1.sent
    THEN [self |-> self, result |-> Err("transport", "failed to make request"),
          events |-> <<"GET", url>>, reauth |-> None]
    ELSE IF env.r1.status = UNAUTHORIZED
    THEN IF /\ self.last_refresh_attempt # None
            /\ self.last_refresh_attempt[1] + REFRESH_COOLDOWN > time
         THEN [self |-> self,
               result |-> Err("UnableToRefreshAccessToken", "unauthorized"),
               events |-> <<"GET", url>>, reauth |-> None]
         ELSE LET r == refresh(self, env.auth)
              IN  IF ~IsOk(r.result)
                  THEN [self |-> r.self, result |-> r.result,
                        events |-> <<"GET", url, "refresh">> \o r.events,
                        reauth |-> Some(r.result)]
                  ELSE IF ~env.r2.sent
                  THEN [self |-> r.self,
                        result |-> Err("transport", "failed to make request"),
                        events |-> <<"GET", url, "refresh">> \o r.events \o <<"GET", url>>,
                        reauth |-> Some(r.result)]
                  ELSE [self |-> r.self, result |-> json(env.r2),
                        events |-> <<"GET", url, "refresh">> \o r.events \o <<"GET", url>>,
                        reauth |-> Some(r.result)]
    ELSE [self |-> self, result |-> json(env.r1), events |-> <<"GET", url>>,
          reauth |-> None]

\* Client::mutate_request as it would be if it handled a 401 the way get
\* does: refresh, then the request once more.
mutate_request_reauth(self, method, url, response) ==
    IF ~response.sent
    THEN [self |-> self, result |-> Err("transport", "failed to make request"),
          events |-> <<method, url>>]
    ELSE IF response.status = UNAUTHORIZED
    THEN LET r == refresh(self, [fail |-> "none", access_token |-> 1,
                                 refresh_token |-> None])
         IN  [self |-> r.self, result |-> Ok(response),
              events |-> <<method, url, "refresh">> \o r.events \o <<method, url>>]
    ELSE [self |-> self, result |-> Ok(response), events |-> <<method, url>>]

\* Client::mutate_request: one request, the raw response is handed back.
mutate_request(self, method, url, response) ==
    IF ~response.sent
    THEN [self |-> self, result |-> Err("transport", "failed to make request"),
          events |-> <<method, url>>]
    ELSE [self |-> self, result |-> Ok(response), events |-> <<method, url>>]

\* --------------------------------------------------------------- auth lock
\* The lock file is None when absent and Some(contents) when present; its
\* contents are Some(t) when they parse as the u64 t, None otherwise (an
\* empty file).
Procs == {"A", "B"}

\* u64::saturating_sub
saturating_sub(a, b) == IF a >= b THEN a - b ELSE 0

\* is_lock_valid as it would be with an inclusive age limit.
is_lock_valid_inclusive(file, time) ==
    IF file = None
    THEN FALSE
    ELSE IF file[1] = None
    THEN FALSE
    ELSE saturating_sub(time, file[1][1]) <= AUTH_LOCK_MAX_AGE

\* is_lock_valid
is_lock_valid(file, time) ==
    IF file = None
    THEN FALSE
    ELSE IF file[1] = None
    THEN FALSE
    ELSE saturating_sub(time, file[1][1]) < AUTH_LOCK_MAX_AGE

\* acquire_auth_lock at clock value time.  io = "write" makes write_all fail
\* after the file was created; the result then is the I/O error and no guard
\* exists.  events lists the file operations in the order they were made.
acquire_auth_lock(file, time, io) ==
    IF is_lock_valid(file, time)
    THEN [file |-> file, result |-> Err("AlreadyLocked", "another authentication flow is already in progress"),
          events |-> <<>>]
    ELSE LET removed == IF file # None THEN None ELSE file
             ops == IF file # None THEN <<"remove_file">> ELSE <<>>
         IN  IF removed # None
             THEN [file |-> removed, result |-> Err("Io", "AlreadyExists"),
                   events |-> ops \o <<"create_new">>]
             ELSE IF io = "write"
             THEN [file |-> Some(None), result |-> Err("Io", "write"),
                   events |-> ops \o <<"create_new", "write_all">>]
             ELSE [file |-> Some(Some(time)), result |-> Ok("guard"),
                   events |-> ops \o <<"create_new", "write_all">>]

\* is_auth_in_progress
is_auth_in_progress(file, time) == is_lock_valid(file, time)

\* ------------------------------------------------------- focus statistics
\* The kinds of FocusDayStat, in the order of the fields of FocusDayStats.
StatKinds == <<"Sleep", "Energy", "Flow", "Hydration", "Health", "Satisfaction", "Stress">>

\* FocusDayStat::field_gid
field_gid(kind) ==
    CASE kind = "Sleep" -> "1204172638538713"
      [] kind = "Energy" -> "1204172638540767"
      [] kind = "Flow" -> "1204172638540769"
      [] kind = "Hydration" -> "1204172638540771"
      [] kind = "Health" -> "1204172638540773"
      [] kind = "Satisfaction" -> "1204172638540775"
      [] kind = "Stress" -> "1204172638540777"

\* A FocusDayStat is the pair of its kind and its Option<u32> value.
FocusDayStat(kind, value) == <<kind, value>>

\* TryFrom<FocusTaskCustomField> for FocusDayStat as it would be if the
\* identifiers of Flow and Hydration were exchanged.
stat_try_from_swapped(custom_field) ==
    CASE custom_field.gid = "1204172638538713" -> Ok(FocusDayStat("Sleep", custom_field.number_value))
      [] custom_field.gid = "1204172638540767" -> Ok(FocusDayStat("Energy", custom_field.number_value))
      [] custom_field.gid = "1204172638540771" -> Ok(FocusDayStat("Flow", custom_field.number_value))
      [] custom_field.gid = "1204172638540769" -> Ok(FocusDayStat("Hydration", custom_field.number_value))
      [] custom_field.gid = "1204172638540773" -> Ok(FocusDayStat("Health", custom_field.number_value))
      [] custom_field.gid = "1204172638540775" -> Ok(FocusDayStat("Satisfaction", custom_field.number_value))
      [] custom_field.gid = "1204172638540777" -> Ok(FocusDayStat("Stress", custom_field.number_value))
      [] OTHER -> Err("decode", "unknown focus day stat gid")

\* TryFrom<FocusTaskCustomField> for FocusDayStat
stat_try_from(custom_field) ==
    CASE custom_field.gid = "1204172638538713" -> Ok(FocusDayStat("Sleep", custom_field.number_value))
      [] custom_field.gid = "1204172638540767" -> Ok(FocusDayStat("Energy", custom_field.number_value))
      [] custom_field.gid = "1204172638540769" -> Ok(FocusDayStat("Flow", custom_field.number_value))
      [] custom_field.gid = "1204172638540771" -> Ok(FocusDayStat("Hydration", custom_field.number_value))
      [] custom_field.gid = "1204172638540773" -> Ok(FocusDayStat("Health", custom_field.number_value))
      [] custom_field.gid = "1204172638540775" -> Ok(FocusDayStat("Satisfaction", custom_field.number_value))
      [] custom_field.gid = "1204172638540777" -> Ok(FocusDayStat("Stress", custom_field.number_value))
      [] OTHER -> Err("decode", "unknown focus day stat gid")

\* FocusDayStats::default: every kind without a value, indexed by kind.
DefaultStats == [k \in {StatKinds[i] : i \in DOMAIN StatKinds} |-> None]

\* The loop of TryFrom<Vec<FocusTaskCustomField>> for FocusDayStats: each
\* field is decoded in turn and stored under its kind; the first field that
\* does not decode ends the conversion with its error.
RECURSIVE stats_fold(_, _)
stats_fold(stats, custom_fields) ==
    IF custom_fields = <<>>
    THEN Ok(stats)
    ELSE LET stat == stat_try_from(Head(custom_fields))
         IN  IF ~IsOk(stat)
             THEN stat
             ELSE stats_fold([stats EXCEPT ![stat[2][1]] = stat[2][2]],
                             Tail(custom_fields))

\* TryFrom<Vec<FocusTaskCustomField>> for FocusDayStats
stats_try_from(custom_fields) == stats_fold(DefaultStats, custom_fields)

\* The field identifiers the server may send: the seven known ones and one
\* that is none of them.
FieldGids == {field_gid(StatKinds[i]) : i \in DOMAIN StatKinds} \cup {"1204172638540779"}

\* Option<u32> values of a field: absent, the least and the greatest of the
\* 0-9 scale.
NumberValues == {None, Some(0), Some(9)}

FocusTaskCustomFields ==
    {[gid |-> g, number_value |-> v] : g \in FieldGids, v \in NumberValues}

\* The lists of at most n custom fields.
RECURSIVE FieldLists(_)
FieldLists(n) ==
    IF n = 0
    THEN {<<>>}
    ELSE FieldLists(n - 1) \cup
         {Append(l, f) : l \in {m \in FieldLists(n - 1) : Len(m) = n - 1},
                         f \in FocusTaskCustomFields}

\* -------------------------------------------------------- focus resolution
\* Dates are days counted from a Monday.  A name is the tuple of the parts
\* the patterns of focus.rs tell apart: the literal prefix, then the dates.
\* A name made of the prefix and one number is one that starts like a
\* weekly or daily name and does not match the pattern.
WEEK_PREFIX == "Daily Focuses"

DAY_PREFIX == "Daily Focus for"

\* chrono's NaiveDate::week(Weekday::Mon): first_day and last_day.
first_day(day) == day - (day % 7)

last_day(day) == first_day(day) + 6

\* format!("Daily Focuses ({from} to {to})")
WeekName(from, to) == <<WEEK_PREFIX, from, to>>

\* The daily name with the weekday and the date exchanged.
DayName_date_first(day) == <<DAY_PREFIX, day, day % 7>>

\* format!("Daily Focus for {weekday} ({date})")
DayName(day) == <<DAY_PREFIX, day % 7, day>>

\* TryFrom<Section> for FocusWeek: the name must match FOCUS_WEEK_PATTERN.
week_try_from(section) ==
    IF section.name[1] = WEEK_PREFIX /\ Len(section.name) = 3
    THEN Ok([section |-> section, from |-> section.name[2], to |-> section.name[3]])
    ELSE Err("parse", "section name")

\* TryFrom<FocusTask> for FocusDay: the name must match FOCUS_DAY_PATTERN,
\* the custom fields must be there and must all decode.
day_try_from(task) ==
    IF ~(task.name[1] = DAY_PREFIX /\ Len(task.name) = 3)
    THEN Err("parse", "task name")
    ELSE IF task.custom_fields = None
    THEN Err("context", "could not find custom fields")
    ELSE LET stats == stats_try_from(task.custom_fields[1])
         IN  IF ~IsOk(stats)
             THEN stats
             ELSE Ok([task |-> task, date |-> task.name[3],
                      stats |-> stats[2], diary |-> task.notes])

\* filter(starts_with("Daily Focuses")).filter_map(try_into): the sections
\* that convert to a FocusWeek, converted, in the order they came in.
collect_focus_weeks(sections) ==
    LET kept == SelectSeq(sections,
                          LAMBDA x : x.name[1] = WEEK_PREFIX /\ IsOk(week_try_from(x)))
    IN  [i \in DOMAIN kept |-> week_try_from(kept[i])[2]]

\* filter(starts_with("Daily Focus for")).filter_map(try_into): the tasks
\* that convert to a FocusDay, converted, in the order they came in.
collect_focus_days(tasks) ==
    LET kept == SelectSeq(tasks,
                          LAMBDA x : x.name[1] = DAY_PREFIX /\ IsOk(day_try_from(x)))
    IN  [i \in DOMAIN kept |-> day_try_from(kept[i])[2]]

\* The least and the greatest member of a non-empty set of numbers.
Least(S) == CHOOSE i \in S : \A j \in S : i <= j

Greatest(S) == CHOOSE i \in S : \A j \in S : j <= i

\* The day before `day` that is furthest from it.
previous_closest_day_earliest(focus_days, day) ==
    LET before == {i \in DOMAIN focus_days : focus_days[i].date < day}
        first == {i \in before : \A j \in before : focus_days[i].date <= focus_days[j].date}
    IN  IF before = {} THEN None ELSE Some(focus_days[Greatest(first)])

\* Iterator::max_by_key over the days dated before day: of the days with the
\* greatest date, the last.
previous_closest_day(focus_days, day) ==
    LET before == {i \in DOMAIN focus_days : focus_days[i].date < day}
        latest == {i \in before : \A j \in before : focus_days[j].date <= focus_days[i].date}
    IN  IF before = {} THEN None ELSE Some(focus_days[Greatest(latest)])

\* The answers of the server that get_focus_day can tell apart.
Accepted == [sent |-> TRUE, status |-> 200, body |-> "d1"]

Refused == [sent |-> TRUE, status |-> 500, body |-> "errs"]

\* The five requests of get_focus_day, in the order they are made.
FocusSteps == <<"sections", "week", "tasks", "day", "order">>

\* What the server answers to each request of one call: every request is
\* accepted, or one of them is not delivered or is refused.  Nothing is
\* asked after the first request that get_focus_day sees fail.
AllAccepted == [step \in {FocusSteps[i] : i \in DOMAIN FocusSteps} |-> Accepted]

FocusEnvs ==
    {AllAccepted}
    \cup {[AllAccepted EXCEPT ![FocusSteps[k]] = r] :
            k \in DOMAIN FocusSteps, r \in {SendFailed, Refused}}

\* One request as the server sees it.
Request(method, path, a, b) == [method |-> method, path |-> path, a |-> a, b |-> b]

\* The custom fields of a task the server has just created: the project's
\* seven, without values.
NewTaskFields ==
    [i \in DOMAIN StatKinds |-> [gid |-> field_gid(StatKinds[i]), number_value |-> None]]

\* seq with item put right before (after = FALSE) or right after the
\* element whose gid is given.
InsertAt(seq, item, gid, after) ==
    LET at == Least({i \in DOMAIN seq : seq[i].gid = gid})
        cut == IF after THEN at ELSE at - 1
    IN  SubSeq(seq, 1, cut) \o <<item>> \o SubSeq(seq, cut + 1, Len(seq))

\* The server's handling of POST /projects/{gid}/sections.
ServerCreateSection(remote, response, name, insert_before) ==
    IF response = Accepted
    THEN [remote EXCEPT
            !.sections = InsertAt(remote.sections,
                                  [gid |-> remote.next_gid, name |-> name],
                                  insert_before, FALSE),
            !.next_gid = remote.next_gid + 1]
    ELSE remote

\* The server's handling of POST /tasks.
ServerCreateTask(remote, response, name, section) ==
    IF response = Accepted
    THEN [remote EXCEPT
            !.tasks = Append(remote.tasks,
                             [gid |-> remote.next_gid, section |-> section,
                              name |-> name, notes |-> "",
                              custom_fields |-> Some(NewTaskFields)]),
            !.next_gid = remote.next_gid + 1]
    ELSE remote

\* The server's handling of POST /sections/{gid}/addTask.
ServerAddTask(remote, response, task, insert_after) ==
    IF response = Accepted
    THEN LET moved == CHOOSE t \in {remote.tasks[i] : i \in DOMAIN remote.tasks} :
                            t.gid = task
             rest == SelectSeq(remote.tasks, LAMBDA t : t.gid # task)
         IN  [remote EXCEPT !.tasks = InsertAt(rest, moved, insert_after, TRUE)]
    ELSE remote

\* The outcome of one call: the remote state it leaves, what it returns,
\* the requests it made and the answers it got.
FocusOutcome(remote, result, events, responses) ==
    [remote |-> remote, result |-> result, events |-> events, responses |-> responses]

\* One client.get call of get_focus_day, given the server's answer to it.
\* None of the answers is a 401, so Client::get (asana.rs:597-614) is one
\* GET and the decoding of its response.
Fetch(self, time, path, response) ==
    IF ~response.sent
    THEN Err("transport", "failed to make request")
    ELSE json(response)

\* The end of get_focus_day (commands/focus.rs:147-178): the new task must
\* convert to a FocusDay; with an earlier day in the week it is moved right
\* after it, and the answer to that request is not looked at beyond its
\* delivery.
order_day(self, remote, env, current_day, previous, events, responses) ==
    IF ~IsOk(current_day) \/ previous = None
    THEN FocusOutcome(remote, current_day, events, responses)
    ELSE FocusOutcome(
            ServerAddTask(remote, env.order, current_day[2].task.gid, previous[1].task.gid),
            IF IsOk(mutate_request(self, "POST", "addTask", env.order).result)
            THEN current_day
            ELSE mutate_request(self, "POST", "addTask", env.order).result,
            Append(events, Request("POST", "addTask",
                                   current_day[2].task.gid, previous[1].task.gid)),
            Append(responses, env.order))

\* get_focus_day once POST /tasks was made (commands/focus.rs:131-158): the
\* request must be delivered and its body must decode; remote is the
\* project after the server handled it.
created_day(day, self, remote, env, sent, focus_days, events, responses) ==
    IF ~IsOk(sent)
    THEN FocusOutcome(remote, sent, events, responses)
    ELSE IF ~IsOk(json(sent[2]))
    THEN FocusOutcome(remote, json(sent[2]), events, responses)
    ELSE order_day(self, remote, env,
                   day_try_from(remote.tasks[Len(remote.tasks)]),
                   previous_closest_day(focus_days, day),
                   events, responses)

\* get_focus_day once the week's tasks were fetched (commands/focus.rs:
\* 93-146): the first Focus Day of the date, or else POST /tasks.
find_day(day, self, remote, env, section, fetched, focus_days, events, responses) ==
    IF ~IsOk(fetched)
    THEN FocusOutcome(remote, fetched, events, responses)
    ELSE IF \E i \in DOMAIN focus_days : focus_days[i].date = day
    THEN FocusOutcome(remote,
                      Ok(focus_days[Least({i \in DOMAIN focus_days : focus_days[i].date = day})]),
                      events, responses)
    ELSE created_day(day, self,
                     ServerCreateTask(remote, env.day, DayName(day), section),
                     env,
                     mutate_request(self, "POST", "tasks", env.day).result,
                     focus_days,
                     Append(events, Request("POST", "tasks", section, day)),
                     Append(responses, env.day))

\* get_focus_day from the task fetch on (commands/focus.rs:91-178).  week
\* is what the first half came to: the project as it left it, the week or
\* the error, the requests made and their answers.
resolve_day(day, self, time, env, week) ==
    IF ~IsOk(week.result)
    THEN week
    ELSE find_day(day, self, week.remote, env,
                  week.result[2].section.gid,
                  Fetch(self, time, "tasks", env.tasks),
                  collect_focus_days(
                      SelectSeq(week.remote.tasks,
                                LAMBDA t : t.section = week.result[2].section.gid)),
                  Append(week.events, Request("GET", "tasks", week.result[2].section.gid, 0)),
                  Append(week.responses, env.tasks))

\* get_focus_day once POST /projects/{gid}/sections was made (commands/
\* focus.rs:68-88): the request must be delivered, its body must decode and
\* the new section must convert to a FocusWeek; remote is the project after
\* the server handled it and gid the identifier it gave.
created_week(remote, gid, sent, events, responses) ==
    IF ~IsOk(sent)
    THEN FocusOutcome(remote, sent, events, responses)
    ELSE IF ~IsOk(json(sent[2]))
    THEN FocusOutcome(remote, json(sent[2]), events, responses)
    ELSE FocusOutcome(remote,
                      week_try_from(CHOOSE x \in {remote.sections[i] : i \in DOMAIN remote.sections} :
                                        x.gid = gid),
                      events, responses)

\* resolve_week as it would be if, with no Focus Week known, the week were
\* created at the end of the project.
resolve_week_creates_first(day, self, remote, env, fetched, focus_weeks, events, responses) ==
    IF ~IsOk(fetched)
    THEN FocusOutcome(remote, fetched, events, responses)
    ELSE IF \E i \in DOMAIN focus_weeks : focus_weeks[i].from <= day /\ focus_weeks[i].to >= day
    THEN FocusOutcome(remote,
                      Ok(focus_weeks[Least({i \in DOMAIN focus_weeks :
                                              focus_weeks[i].from <= day /\ focus_weeks[i].to >= day})]),
                      events, responses)
    ELSE IF focus_weeks = <<>>
    THEN created_week(IF env.week = Accepted
                      THEN [remote EXCEPT
                              !.sections = Append(remote.sections,
                                                  [gid |-> remote.next_gid,
                                                   name |-> WeekName(first_day(day), last_day(day))]),
                              !.next_gid = remote.next_gid + 1]
                      ELSE remote,
                      remote.next_gid,
                      mutate_request(self, "POST", "sections", env.week).result,
                      Append(events, Request("POST", "sections", 0, first_day(day))),
                      Append(responses, env.week))
    ELSE created_week(ServerCreateSection(remote, env.week,
                                          WeekName(first_day(day), last_day(day)),
                                          focus_weeks[1].section.gid),
                      remote.next_gid,
                      mutate_request(self, "POST", "sections", env.week).result,
                      Append(events, Request("POST", "sections",
                                             focus_weeks[1].section.gid, first_day(day))),
                      Append(responses, env.week))

\* get_focus_day from the section fetch to the week (commands/focus.rs:
\* 26-89): the first Focus Week holding the date; without one a week is
\* created before the first Focus Week the server listed.
resolve_week(day, self, remote, env, fetched, focus_weeks, events, responses) ==
    IF ~IsOk(fetched)
    THEN FocusOutcome(remote, fetched, events, responses)
    ELSE IF \E i \in DOMAIN focus_weeks : focus_weeks[i].from <= day /\ focus_weeks[i].to >= day
    THEN FocusOutcome(remote,
                      Ok(focus_weeks[Least({i \in DOMAIN focus_weeks :
                                              focus_weeks[i].from <= day /\ focus_weeks[i].to >= day})]),
                      events, responses)
    ELSE IF focus_weeks = <<>>
    THEN FocusOutcome(remote, Err("context", "unable to get any focus weeks"),
                      events, responses)
    ELSE created_week(ServerCreateSection(remote, env.week,
                                          WeekName(first_day(day), last_day(day)),
                                          focus_weeks[1].section.gid),
                      remote.next_gid,
                      mutate_request(self, "POST", "sections", env.week).result,
                      Append(events, Request("POST", "sections",
                                             focus_weeks[1].section.gid, first_day(day))),
                      Append(responses, env.week))

\* get_focus_day (commands/focus.rs:24-179).  env gives the server's answer
\* to each request.
get_focus_day(day, self, time, remote, env) ==
    resolve_day(day, self, time, env,
                resolve_week(day, self, remote, env,
                             Fetch(self, time, "sections", env.sections),
                             collect_focus_weeks(remote.sections),
                             <<Request("GET", "sections", 0, 0)>>,
                             <<env.sections>>))

\* ------------------------------------------------------------ task grouping
\* A UserTask is its gid and its due date; dates are days as above.
UserTask(gid, due_on) == [gid |-> gid, due_on |-> due_on]

\* [T]::sort_by_key with the due date as key, over tasks that all have one:
\* a stable sort.  Each task goes after the tasks before it whose date is
\* not greater than its own.
RECURSIVE sort_by_key(_)
sort_by_key(tasks) ==
    IF tasks = <<>>
    THEN <<>>
    ELSE LET sorted == sort_by_key(SubSeq(tasks, 1, Len(tasks) - 1))
             last == tasks[Len(tasks)]
             k == Cardinality({i \in DOMAIN sorted : sorted[i].due_on[1] <= last.due_on[1]})
         IN  SubSeq(sorted, 1, k) \o <<last>> \o SubSeq(sorted, k + 1, Len(sorted))

\* today.checked_add_days(Days::new(7))
week_end(today) == today + 7

\* from_tasks as it would be if the week ended the day before week_end.
from_tasks_short_week(tasks, today) ==
    [overdue |->
        sort_by_key(SelectSeq(tasks, LAMBDA t : t.due_on # None /\ t.due_on[1] < today)),
     due_today |->
        sort_by_key(SelectSeq(tasks, LAMBDA t : t.due_on # None /\ t.due_on[1] = today)),
     due_this_week |->
        sort_by_key(SelectSeq(tasks, LAMBDA t : /\ t.due_on # None
                                                /\ t.due_on[1] > today
                                                /\ t.due_on[1] < week_end(today)))]

\* GroupedTasks::from_tasks
from_tasks(tasks, today) ==
    [overdue |->
        sort_by_key(SelectSeq(tasks, LAMBDA t : t.due_on # None /\ t.due_on[1] < today)),
     due_today |->
        sort_by_key(SelectSeq(tasks, LAMBDA t : t.due_on # None /\ t.due_on[1] = today)),
     due_this_week |->
        sort_by_key(SelectSeq(tasks, LAMBDA t : /\ t.due_on # None
                                                /\ t.due_on[1] > today
                                                /\ t.due_on[1] <= week_end(today)))]

\* The due dates of the tasks of a list: none, and dates before, on and
\* after the days asked for, up to the last day of their weeks and beyond.
DueDates == {None} \cup {Some(d) : d \in {0, 1, 2, 8, 9, 10}}

\* The task lists of at most n tasks; the gid of a task is its place.
RECURSIVE TaskLists(_)
TaskLists(n) ==
    IF n = 0
    THEN {<<>>}
    ELSE TaskLists(n - 1) \cup
         {Append(l, UserTask(n, d)) : l \in {m \in TaskLists(n - 1) : Len(m) = n - 1},
                                      d \in DueDates}

\* The days asked for.
Todays == {1, 2}

\* -------------------------------------------------------- the focus routine
\* FocusDayStats::set_stat: the statistic of the kind of stat is replaced.
set_stat(stats, stat) == [stats EXCEPT ![stat[1]] = stat[2]]

\* The filter as it would be if the statistics of the morning were asked
\* for whether they have a value or not.
unfilled_stats_all(stats, force_eod, date, today, hour) ==
    SelectSeq(StatKinds,
              LAMBDA k : IF k \in {"Sleep", "Energy"}
                         THEN TRUE
                         ELSE stats[k] = None /\ (force_eod \/ date < today
                                                  \/ hour >= START_HOUR_FOR_EOD))

\* The filter of focus::run (commands/focus.rs:219-230) over stats(): the
\* kinds without a value; those of the evening only when the end of the
\* day is forced, the day is past or the hour has come.
unfilled_stats_at_this_time(stats, force_eod, date, today, hour) ==
    SelectSeq(StatKinds,
              LAMBDA k : IF k \in {"Sleep", "Energy"}
                         THEN stats[k] = None
                         ELSE stats[k] = None /\ (force_eod \/ date < today
                                                  \/ hour >= START_HOUR_FOR_EOD))

\* The validator of the statistic prompt (commands/focus.rs:243-249).
validate(i) ==
    IF i > 9
    THEN Err("validation", "value must be between 0 and 9")
    ELSE Ok("unit")

\* Input::<u32>::interact_text with the validator: typed holds what the
\* operator enters, in turn; an entry that does not validate is asked
\* again; when the entries end without a valid one the terminal has failed.
interact_text(typed) ==
    IF \E i \in DOMAIN typed : IsOk(validate(typed[i]))
    THEN Ok(typed[Least({i \in DOMAIN typed : IsOk(validate(typed[i]))})])
    ELSE Err("io", "could not read from the terminal")

\* The custom_fields map of the update request (commands/focus.rs:277-281):
\* one entry, from field identifier to value, for each statistic that has a
\* value.
custom_fields_of(new_stats) ==
    [g \in {field_gid(k) : k \in {x \in DOMAIN new_stats : new_stats[x] # None}} |->
        new_stats[CHOOSE k \in DOMAIN new_stats : field_gid(k) = g][1]]

\* The request of the sync unit: PUT /tasks/{gid of the day's task} with
\* the diary as notes and the custom_fields map.
UpdateRequest(focus_day, new_stats, new_diary_entry) ==
    [method |-> "PUT", task |-> focus_day.gid, notes |-> new_diary_entry,
     custom_fields |-> custom_fields_of(new_stats)]

\* The `?` of the sync unit on mutate_request: the error, or else Ok(true).
sent_or_error(sent) == IF IsOk(sent) THEN Ok(TRUE) ELSE sent

\* The body of the sync unit as it would be if it sent the request only
\* when the statistics changed.
sync_stats_only(self, focus_day, new_stats, new_diary_entry, response) ==
    IF new_stats = focus_day.stats
    THEN [result |-> Ok(FALSE), requests |-> <<>>]
    ELSE [result |-> sent_or_error(mutate_request(self, "PUT", "tasks", response).result),
          requests |-> <<UpdateRequest(focus_day, new_stats, new_diary_entry)>>]

\* The body of the sync unit (commands/focus.rs:283-305): nothing is sent
\* when neither the statistics nor the diary changed; else one PUT on the
\* day's task, of which only the delivery is looked at.
sync(self, focus_day, new_stats, new_diary_entry, response) ==
    IF new_stats = focus_day.stats /\ new_diary_entry = focus_day.diary
    THEN [result |-> Ok(FALSE), requests |-> <<>>]
    ELSE [result |-> sent_or_error(mutate_request(self, "PUT", "tasks", response).result),
          requests |-> <<UpdateRequest(focus_day, new_stats, new_diary_entry)>>]

\* ---------------------------------------------------------- background units
\* A terminal write that fails.
TermError == Err("io", "could not write to the terminal")

\* A command returns.
Return(run, result) == [run EXCEPT !.pc = "returned", !.result = Some(result)]

\* The `?` on mutate_request of a unit that does not read the response: the
\* error, or else Ok(()).
unit_or_error(sent) == IF IsOk(sent) THEN Ok("unit") ELSE sent

\* StatusCode::is_success
is_success(status) == status >= 200 /\ status < 300

\* complete_task (commands/complete.rs:135-153): one PUT; a request that is
\* not delivered or is answered without success is an error.
complete_task(self, response) ==
    IF ~IsOk(mutate_request(self, "PUT", "tasks", response).result)
    THEN mutate_request(self, "PUT", "tasks", response).result
    ELSE IF ~is_success(response.status)
    THEN Err("api", "Asana API error")
    ELSE Ok("unit")

\* The body of a subtask unit (commands/focus.rs:351-368): one POST, of
\* which only the delivery is looked at.
create_subtask(self, response) ==
    unit_or_error(mutate_request(self, "POST", "subtasks", response).result)

\* is_finished of every unit from the one at place `from` on.
all_finished(units, from) ==
    \A i \in DOMAIN units : i >= from => units[i].state = "finished"

\* `for res in join_all(units).await { res??; }` once every unit has
\* finished: the first error in the order of dispatch, or else Ok(()).
join_all(units, from) ==
    IF \E i \in DOMAIN units : i >= from /\ ~IsOk(units[i].result[1])
    THEN units[Least({i \in DOMAIN units : i >= from /\ ~IsOk(units[i].result[1])})].result[1]
    ELSE Ok("unit")

\* The runtime goes down with the process: a unit that still runs is
\* dropped where it is.
shutdown(units) ==
    [i \in DOMAIN units |->
        IF units[i].state = "running"
        THEN [units[i] EXCEPT !.state = "cancelled"]
        ELSE units[i]]

\* ------------------------------------------------- the complete command
\* The comparator of the display list (commands/complete.rs:70-75) says
\* Greater: a has no due date and b has one, or a is due after b.
due_after(a, b) ==
    IF a.task.due_on = None
    THEN b.task.due_on # None
    ELSE b.task.due_on # None /\ a.task.due_on[1] > b.task.due_on[1]

\* sort_by with that comparator: a stable sort.  Each item goes after the
\* items before it that are not due after it.
RECURSIVE sort_available(_)
sort_available(available) ==
    IF available = <<>>
    THEN <<>>
    ELSE LET sorted == sort_available(SubSeq(available, 1, Len(available) - 1))
             last == available[Len(available)]
             k == Cardinality({i \in DOMAIN sorted : ~due_after(sorted[i], last)})
         IN  SubSeq(sorted, 1, k) \o <<last>> \o SubSeq(sorted, k + 1, Len(sorted))

\* The display list as it would be if the tasks selected before stayed in it.
available_all(tasks, completed_indices) ==
    sort_available([i \in DOMAIN tasks |-> [idx |-> i, task |-> tasks[i]]])

\* The display list of one turn of the loop (commands/complete.rs:57-75,
\* 98): the tasks not selected yet, with their places in the cached list,
\* by due date, those without one last.
available_sorted(tasks, completed_indices) ==
    sort_available(
        SelectSeq([i \in DOMAIN tasks |-> [idx |-> i, task |-> tasks[i]]],
                  LAMBDA item : \A j \in DOMAIN completed_indices :
                                    completed_indices[j] # item.idx))

\* --------------------------------------------------------- the add command
\* parse_flexible_date: "tomorrow" stands for the texts that parse, to day
\* 9, any other text does not.
parse_flexible_date(input) ==
    IF input = "tomorrow"
    THEN Ok(9)
    ELSE Err("parse", "Failed to parse date")

\* add::run once the name, the due date and the notes are known
\* (commands/add.rs:99-137): one POST; a request that is not delivered or
\* is answered without success is an error, and so is a terminal that
\* fails afterwards.
create_task(self, response, written) ==
    IF ~IsOk(mutate_request(self, "POST", "tasks", response).result)
    THEN mutate_request(self, "POST", "tasks", response).result
    ELSE IF ~is_success(response.status)
    THEN Err("api", "Asana API error")
    ELSE IF ~written
    THEN TermError
    ELSE Ok("unit")

\* The check as it would be if the cache-only mode were not looked at.
cache_only_ignored(use_cache, verb) == None

\* The first statement of complete::run and of add::run: in cache-only mode
\* the command is refused; Some(error) is the bail, None goes on.
cache_only(use_cache, verb) ==
    IF use_cache
    THEN Some(Err("cache", <<"Cannot", verb, "tasks in cache-only mode">>))
    ELSE None

\* ------------------------------------------------- status, summary, cache
\* FocusDay::is_morning_done and is_evening_done (focus.rs:241-252).
is_morning_done(focus_day) ==
    focus_day.stats["Sleep"] # None /\ focus_day.stats["Energy"] # None

is_evening_done(focus_day) ==
    \A i \in DOMAIN StatKinds :
        StatKinds[i] \in {"Sleep", "Energy"} \/ focus_day.stats[StatKinds[i]] # None

\* is_evening (focus.rs:557-559).
is_evening(hour) == hour >= START_HOUR_FOR_EOD

\* Status::new (commands/status.rs:35-60), without the two task counts it
\* copies: without a focus day both routines count as done.
Status_new(focus_day, today, hour) ==
    IF focus_day # None
    THEN [morning_done |-> focus_day[1].date = today /\ is_morning_done(focus_day[1]),
          evening_done |-> focus_day[1].date = today /\ is_evening_done(focus_day[1]),
          is_evening |-> is_evening(hour)]
    ELSE [morning_done |-> TRUE, evening_done |-> TRUE, is_evening |-> is_evening(hour)]

\* The reminder of the summary (commands/summary.rs:84-107): None when
\* nothing is missing or the day is not today's.
focus_message(focus_day, today, hour) ==
    IF focus_day.date # today
    THEN None
    ELSE IF ~is_morning_done(focus_day) /\ hour >= START_HOUR_FOR_EOD /\ ~is_evening_done(focus_day)
    THEN Some("Don't forget your focus for the day!")
    ELSE IF ~is_morning_done(focus_day)
    THEN Some("Time for your morning reflection.")
    ELSE IF hour >= START_HOUR_FOR_EOD /\ ~is_evening_done(focus_day)
    THEN Some("Time for your evening reflection.")
    ELSE None

\* `if let (Some(focus_day), true) = (&cache.focus_day, use_cache)`: the
\* cached day is used in cache-only mode alone.
cached_focus_day(cache, use_cache) ==
    IF cache.focus_day # None /\ use_cache THEN cache.focus_day ELSE None

\* Whether status::run calls get_focus_day (commands/status.rs:188-197):
\* with a focus project configured and no cached day to use.
status_resolves(focus_project_gid, cache, use_cache) ==
    focus_project_gid # None /\ cached_focus_day(cache, use_cache) = None

\* Whether summary::run calls get_focus_day (commands/summary.rs:78-83):
\* whenever there is no cached day to use.
summary_resolves(focus_project_gid, cache, use_cache) ==
    cached_focus_day(cache, use_cache) = None

\* A cache file that a failed write left cut short.
Truncated == [partial |-> TRUE]

\* save_cache (main.rs:910-920): fs::write creates or empties the file and
\* then writes it; io tells how far it gets.
save_cache(file, cache, io) ==
    IF io = "ok"
    THEN [file |-> cache, result |-> Ok("unit")]
    ELSE IF io = "create"
    THEN [file |-> file, result |-> Err("io", "could not write to cache file")]
    ELSE [file |-> Truncated, result |-> Err("io", "could not write to cache file")]

\* refresh_cache once both requests were answered (main.rs:931-939): tasks
\* and focus_day are what they returned.
refresh_cache(cache, file, tasks, focus_day, time, io) ==
    IF ~IsOk(tasks)
    THEN [cache |-> cache, file |-> file, result |-> tasks]
    ELSE IF ~IsOk(focus_day)
    THEN [cache |-> cache, file |-> file, result |-> focus_day]
    ELSE [cache |-> [cache EXCEPT !.tasks = Some(tasks[2]),
                                  !.focus_day = Some(focus_day[2]),
                                  !.last_updated = Some(time)],
          file |-> save_cache(file,
                              [cache EXCEPT !.tasks = Some(tasks[2]),
                                            !.focus_day = Some(focus_day[2]),
                                            !.last_updated = Some(time)],
                              io).file,
          result |-> save_cache(file,
                                [cache EXCEPT !.tasks = Some(tasks[2]),
                                              !.focus_day = Some(focus_day[2]),
                                              !.last_updated = Some(time)],
                                io).result]

\* ------------------------------------------------------------------- state
VARIABLES
    client,       \* the Client: credentials, http ("new" as built by Client::new,
                  \* "rebuilt" once refresh replaced it), last_refresh_attempt
    now,          \* the wall clock, in seconds
    reauth_at,    \* when Client::refresh was last entered (None: never)
    obs,          \* the last call on the client: its inputs, network events and result
    lock_file,    \* auth.lock: None when absent, Some(contents) when present
    guards,       \* the processes holding an AuthLockGuard
    lock_obs,     \* the last acquire_auth_lock call
    pc,           \* each process's position inside acquire_auth_lock
    timestamp,    \* each process's local `timestamp` in acquire_auth_lock
    lock_owner,   \* who created the file now at the lock path, and when
    fresh_removed, \* a process removed a file another created < 300 s before
    flow,         \* each process's position in its initial authorization
    flow_result,  \* what each process's last authorization flow returned
    custom_fields, \* a custom field list received from the server
    decoded,      \* the last decoding of custom_fields: None before it ran
    remote,       \* the focus project on the server: sections and tasks in its order
    focus_obs,    \* the last call of get_focus_day
    grouping,     \* one call of GroupedTasks::from_tasks: its inputs and its result
    routine,      \* one run of the focus command from the resolved day on
    command,      \* one run of the complete or of the add command
    snapshot      \* the cache, its file and one command that reads or refreshes it

vars == <<client, now, reauth_at, obs, lock_file, guards, lock_obs,
          pc, timestamp, lock_owner, fresh_removed, flow, flow_result,
          custom_fields, decoded, remote, focus_obs,
          grouping, routine, command, snapshot>>

client_vars == <<client, reauth_at, obs>>

lock_vars == <<lock_file, guards, lock_obs>>

conc_vars == <<pc, timestamp, lock_owner, fresh_removed>>

flow_vars == <<flow, flow_result>>

stats_vars == <<custom_fields, decoded>>

focus_vars == <<remote, focus_obs>>

\* The variables of the commands.
later_vars == <<grouping, routine, command, snapshot>>

\* The variables of the other subsystems, which the client and the lock
\* leave alone.
other_vars == <<flow_vars, stats_vars, focus_vars, later_vars>>

\* The variables the commands leave alone.
base_vars == <<now, client_vars, lock_vars, conc_vars, flow_vars, stats_vars, focus_vars>>

\* Number of occurrences of e in the sequence s.
Count(e, s) == Cardinality({i \in DOMAIN s : s[i] = e})

NoAuth == [fail |-> "none", access_token |-> 1, refresh_token |-> None]

\* The record of one call: the client before it, the time since the previous
\* reauthentication (None: there was none), what the network answered, the
\* reauthentication's inputs and result when one ran, and what came back.
Observe(op, url, out, received, auth, reauth) ==
    [op |-> op,
     pre |-> client,
     since |-> IF reauth_at # None THEN Some(now - reauth_at[1]) ELSE None,
     url |-> url,
     responses |-> received,
     auth |-> IF reauth # None THEN Some(auth) ELSE None,
     reauth |-> reauth,
     result |-> out.result,
     events |-> out.events]

ClientInit ==
    /\ client \in {NewClient(c) : c \in Credentials}
    /\ reauth_at = None
    /\ obs = [op |-> "new", pre |-> client, url |-> "u1",
              since |-> None, responses |-> <<>>, auth |-> None,
              reauth |-> None, result |-> Ok("unit"), events |-> <<>>]

\* The reauthentication environments that differ for the given credential:
\* a static token consults none, a refresh-token exchange has no browser and
\* no prompt.
AuthEnvsFor(credentials) ==
    IF ~IsOAuth2(credentials) THEN {NoAuth}
    ELSE IF credentials[3] # None
    THEN {e \in AuthEnvs : e.fail \notin {"browser", "input"}}
    ELSE AuthEnvs

\* The body of a 401 answer to the first GET is never read, so one body
\* stands for all of them there.
FirstResponses ==
    {r \in Responses : r.sent /\ r.status = UNAUTHORIZED => r.body = "errs"}

\* One call of Client::get, from its first GET to its return.
Get ==
    \E url \in Urls, r1 \in FirstResponses :
      \E auth \in (IF r1.sent /\ r1.status = UNAUTHORIZED
                   THEN AuthEnvsFor(client.credentials) ELSE {NoAuth}) :
        \E r2 \in (IF r1.sent /\ r1.status = UNAUTHORIZED /\ IsOk(refresh(client, auth).result)
                   THEN Responses ELSE {SendFailed}) :
          LET out == get(client, now, url, [r1 |-> r1, auth |-> auth, r2 |-> r2])
              received == IF Count("GET", out.events) > 1 THEN <<r1, r2>> ELSE <<r1>>
          IN  /\ client' = out.self
              /\ reauth_at' = IF out.reauth # None THEN Some(now) ELSE reauth_at
              /\ obs' = Observe("get", url, out, received, auth, out.reauth)
              /\ UNCHANGED <<now, lock_vars, conc_vars, other_vars>>

\* One direct call of Client::refresh.
Refresh ==
    \E auth \in AuthEnvsFor(client.credentials) :
      LET out == refresh(client, auth)
      IN  /\ client' = out.self
          /\ reauth_at' = Some(now)
          /\ obs' = Observe("refresh", "u1", out, <<>>, auth, Some(out.result))
          /\ UNCHANGED <<now, lock_vars, conc_vars, other_vars>>

\* One call of Client::mutate_request.
Mutate ==
    \E method \in Methods, url \in Urls, response \in Responses :
      LET out == mutate_request(client, method, url, response)
      IN  /\ client' = out.self
          /\ obs' = Observe("mutate_request", url, out, <<response>>, NoAuth, None)
          /\ UNCHANGED <<now, reauth_at, lock_vars, conc_vars, other_vars>>

\* Time passes.
Tick ==
    \E d \in {299, 300} :
      /\ now + d <= MaxNow
      /\ now' = now + d
      /\ UNCHANGED <<client_vars, lock_vars, conc_vars, other_vars>>

LockInit ==
    /\ lock_file = None
    /\ guards = {}
    /\ lock_obs = None

\* One call of acquire_auth_lock by a process that holds no guard.
Acquire(p) ==
    \E io \in {"ok", "write"} :
      LET out == acquire_auth_lock(lock_file, now, io)
      IN  /\ p \notin guards
          /\ lock_file' = out.file
          /\ guards' = IF IsOk(out.result) THEN guards \cup {p} ELSE guards
          /\ lock_obs' = Some([proc |-> p, pre |-> lock_file, held |-> guards,
                               time |-> now, io |-> io, result |-> out.result,
                               events |-> out.events, file |-> out.file])
          /\ UNCHANGED <<now, client_vars, conc_vars, other_vars>>

\* A drop that gives up the guard and leaves the file in place.
drop_keeps_file(p) ==
    /\ p \in guards
    /\ guards' = guards \ {p}
    /\ lock_file' = lock_file
    /\ UNCHANGED <<lock_obs, now, client_vars, other_vars>>

\* AuthLockGuard::drop: the file is removed, whoever wrote it.
drop(p) ==
    /\ p \in guards
    /\ guards' = guards \ {p}
    /\ lock_file' = None
    /\ UNCHANGED <<lock_obs, now, client_vars, other_vars>>

\* A guard is dropped between two whole calls of acquire_auth_lock.
DropGuard(p) == drop(p) /\ UNCHANGED conc_vars

\* The steps of acquire_auth_lock and of drop as they interleave between
\* processes.  lock_owner is the creator and creation time of the file now
\* at the lock path; a write through a handle whose file was removed from
\* the path changes nothing a later reader can see.
ConcInit ==
    /\ pc = [p \in Procs |-> "idle"]
    /\ timestamp = [p \in Procs |-> 0]
    /\ lock_owner = None
    /\ fresh_removed = FALSE

\* cache.rs:160-163: the validity check; a valid lock ends the call with
\* AlreadyLocked.
CheckValid(p) ==
    /\ pc[p] = "idle"
    /\ pc' = [pc EXCEPT ![p] = IF is_lock_valid(lock_file, now) THEN "idle" ELSE "exists"]
    /\ UNCHANGED <<timestamp, lock_owner, fresh_removed, lock_vars, now, client_vars, other_vars>>

\* cache.rs:166: lock_path.exists()
CheckExists(p) ==
    /\ pc[p] = "exists"
    /\ pc' = [pc EXCEPT ![p] = IF lock_file # None THEN "remove" ELSE "create"]
    /\ UNCHANGED <<timestamp, lock_owner, fresh_removed, lock_vars, now, client_vars, other_vars>>

\* Whether removing the file now at the path removes one that a process
\* other than p created less than 300 seconds ago.
RemovesFresh(p) ==
    /\ lock_file # None
    /\ lock_owner # None
    /\ lock_owner[1].by # p
    /\ now - lock_owner[1].at < AUTH_LOCK_MAX_AGE

\* cache.rs:168: fs::remove_file, its result ignored.
RemoveStale(p) ==
    /\ pc[p] = "remove"
    /\ pc' = [pc EXCEPT ![p] = "create"]
    /\ lock_file' = None
    /\ lock_owner' = None
    /\ fresh_removed' = (fresh_removed \/ RemovesFresh(p))
    /\ UNCHANGED <<timestamp, guards, lock_obs, now, client_vars, other_vars>>

\* cache.rs:172-180: the clock is read, then create_new either creates an
\* empty file or fails because one exists, which ends the call with Io.
CreateNew(p) ==
    /\ pc[p] = "create"
    /\ timestamp' = [timestamp EXCEPT ![p] = now]
    /\ IF lock_file # None
       THEN /\ pc' = [pc EXCEPT ![p] = "idle"]
            /\ UNCHANGED <<lock_file, lock_owner>>
       ELSE /\ pc' = [pc EXCEPT ![p] = "write"]
            /\ lock_file' = Some(None)
            /\ lock_owner' = Some([by |-> p, at |-> now])
    /\ UNCHANGED <<fresh_removed, guards, lock_obs, now, client_vars, other_vars>>

\* cache.rs:182-185: write_all through the handle create_new returned, then
\* the guard.  A failed write ends the call with Io and leaves the file.
WriteAll(p) ==
    \E io \in {"ok", "write"} :
      /\ pc[p] = "write"
      /\ pc' = [pc EXCEPT ![p] = IF io = "ok" THEN "held" ELSE "idle"]
      /\ lock_file' = IF io = "ok" /\ lock_owner # None /\ lock_owner[1].by = p
                      THEN Some(Some(timestamp[p])) ELSE lock_file
      /\ guards' = IF io = "ok" THEN guards \cup {p} ELSE guards
      /\ UNCHANGED <<timestamp, lock_owner, fresh_removed, lock_obs, now, client_vars, other_vars>>

\* AuthLockGuard::drop by a process whose acquire_auth_lock returned a guard.
Release(p) ==
    /\ pc[p] = "held"
    /\ drop(p)
    /\ pc' = [pc EXCEPT ![p] = "idle"]
    /\ lock_owner' = None
    /\ fresh_removed' = (fresh_removed \/ RemovesFresh(p))
    /\ UNCHANGED timestamp

\* Authorization at start-up (main.rs:1183-1206) of processes that find no
\* credential in the cache.  The flow is entered directly: neither main nor
\* execute_authorization_flow calls acquire_auth_lock.
FlowInit ==
    /\ flow = [p \in Procs |-> "start"]
    /\ flow_result = [p \in Procs |-> None]

\* execute_authorization_flow up to the prompt: the browser is opened, and
\* if that works the process asks the operator for the code.
ReachFlow(p) ==
    \E env \in {e \in AuthEnvs : e.fail \in {"none", "browser"} /\ e.access_token = 1
                                  /\ e.refresh_token = None} :
      /\ flow[p] = "start"
      /\ IF env.fail = "browser"
         THEN /\ flow' = [flow EXCEPT ![p] = "done"]
              /\ flow_result' = [flow_result EXCEPT
                                    ![p] = Some(execute_authorization_flow(env).result)]
         ELSE /\ flow' = [flow EXCEPT ![p] = "prompt"]
              /\ UNCHANGED flow_result
      /\ UNCHANGED <<now, client_vars, lock_vars, conc_vars, stats_vars, focus_vars, later_vars>>

\* The operator answers the prompt and the code is exchanged.
AnswerPrompt(p) ==
    \E env \in {e \in AuthEnvs : e.fail \in {"none", "input", "exchange"}} :
      /\ flow[p] = "prompt"
      /\ flow' = [flow EXCEPT ![p] = "done"]
      /\ flow_result' = [flow_result EXCEPT
                            ![p] = Some(execute_authorization_flow(env).result)]
      /\ UNCHANGED <<now, client_vars, lock_vars, conc_vars, stats_vars, focus_vars, later_vars>>

\* The program is run again after a failed flow left the cache without a
\* credential.
RunAgain(p) ==
    /\ flow[p] = "done"
    /\ ~IsOk(flow_result[p][1])
    /\ flow' = [flow EXCEPT ![p] = "start"]
    /\ UNCHANGED <<flow_result, now, client_vars, lock_vars, conc_vars, stats_vars, focus_vars, later_vars>>

\* No custom field list has been received.
StatsIdle ==
    /\ custom_fields = <<>>
    /\ decoded = None

\* A custom field list has arrived from the server and is not yet decoded.
StatsInit ==
    /\ custom_fields \in FieldLists(MaxFields)
    /\ decoded = None

\* The list is decoded: each of its fields on its own, and the list as a
\* whole.
Decode ==
    /\ decoded = None
    /\ decoded' = Some([each |-> [i \in DOMAIN custom_fields |-> stat_try_from(custom_fields[i])],
                        all |-> stats_try_from(custom_fields)])
    /\ UNCHANGED <<custom_fields, now, client_vars, lock_vars, conc_vars, flow_vars, focus_vars, later_vars>>

\* The sections a focus project may start with: two weeks and a section
\* whose name starts like a week's and does not match.
SectionPool ==
    {[gid |-> 1, name |-> WeekName(7, 13)],
     [gid |-> 2, name |-> WeekName(14, 20)],
     [gid |-> 3, name |-> <<WEEK_PREFIX, 0>>]}

\* The sequences of at most n different members of pool.
RECURSIVE Arrangements(_, _)
Arrangements(pool, n) ==
    IF n = 0
    THEN {<<>>}
    ELSE LET shorter == Arrangements(pool, n - 1)
         IN  shorter \cup
             UNION {{Append(l, x) : x \in pool \ {l[i] : i \in DOMAIN l}} :
                        l \in {m \in shorter : Len(m) = n - 1}}

\* The task the first week may hold at the start: the day of its Monday
\* with a value, without custom fields or with an unknown field; a task
\* whose name starts like a day's and does not match.
TaskPool ==
    {[gid |-> 5, section |-> 1, name |-> DayName(7), notes |-> "", custom_fields |-> c] :
        c \in {Some(<<[gid |-> field_gid("Sleep"), number_value |-> Some(9)]>>),
               None,
               Some(<<[gid |-> "1204172638540779", number_value |-> Some(0)]>>)}}
    \cup {[gid |-> 5, section |-> 1, name |-> <<DAY_PREFIX, 0>>, notes |-> "",
           custom_fields |-> Some(<<>>)]}

\* The dates asked for: one in a week the project never starts with, three
\* in a row in its first week.
FocusDates == {0, 7, 8, 9}

\* A command that is not run.
Off == [pc |-> "off"]

\* Nothing of the commands below has run.
LaterIdle ==
    /\ grouping = None
    /\ routine = Off
    /\ command = Off
    /\ snapshot = Off

FocusIdle ==
    /\ remote = [sections |-> <<>>, tasks |-> <<>>, next_gid |-> 6]
    /\ focus_obs = None

FocusInit ==
    /\ \E sections \in Arrangements(SectionPool, MaxSections) :
         \E tasks \in {<<>>} \cup {<<t>> : t \in
                            {x \in TaskPool : \E i \in DOMAIN sections : sections[i].gid = x.section}} :
           remote = [sections |-> sections, tasks |-> tasks, next_gid |-> 6]
    /\ focus_obs = None

\* The steps of FocusSteps that a call made, from its requests.
StepsMade(events) ==
    {IF events[i].method = "GET" THEN events[i].path
     ELSE IF events[i].path = "sections" THEN "week"
     ELSE IF events[i].path = "tasks" THEN "day"
     ELSE "order" : i \in DOMAIN events}

\* One call of get_focus_day.  The server's answers are those to the
\* requests the call makes: an answer to a request that is not made changes
\* nothing.  A call depends on the project only, so the calls that follow
\* one which left the project as it was lead to the very states that the
\* calls from the state before it lead to; they are not taken again.
GetFocusDay ==
    /\ Len(remote.tasks) < MaxTasks
    /\ focus_obs # None => focus_obs[1].pre # remote
    /\ \E day \in FocusDates :
         \E env \in FocusEnvs :
           \E out \in {get_focus_day(day, client, now, remote, env)} :
             /\ \A step \in DOMAIN env :
                    env[step] # Accepted => step \in StepsMade(out.events)
             /\ remote' = out.remote
             /\ focus_obs' = Some([day |-> day, pre |-> remote, result |-> out.result,
                                   events |-> out.events, responses |-> out.responses])
             /\ UNCHANGED <<now, client_vars, lock_vars, conc_vars, flow_vars, stats_vars, later_vars>>

\* One call of from_tasks on a task list and a day.
GroupingInit ==
    \E tasks \in TaskLists(MaxGroup), today \in Todays :
        grouping = [tasks |-> tasks, today |-> today, grouped |-> None]

FromTasks ==
    /\ grouping.grouped = None
    /\ grouping' = [grouping EXCEPT !.grouped = Some(from_tasks(grouping.tasks, grouping.today))]
    /\ UNCHANGED <<base_vars, routine, command, snapshot>>

\* A background unit (tokio::spawn): what it is for, whether it runs, has
\* finished or was cancelled, the requests it made and what it returned.
Unit(kind, target) ==
    [kind |-> kind, target |-> target, state |-> "running", requests |-> <<>>,
     result |-> None]

Finish(unit, result, requests) ==
    [unit EXCEPT !.state = "finished", !.result = Some(result), !.requests = requests]

\* The statistics of the resolved day: none set, as on a day just created;
\* those of the morning set, one of them beyond the scale; all set; all but
\* the first set.
AllSet == [k \in DOMAIN DefaultStats |-> Some(4)]

DayStats ==
    {DefaultStats,
     [DefaultStats EXCEPT !["Sleep"] = Some(4), !["Energy"] = Some(12)],
     AllSet,
     [AllSet EXCEPT !["Sleep"] = None]}

\* The diary texts.
Diaries == {"", "d"}

\* What the operator enters at a statistic prompt: nothing before the
\* terminal fails, 0, or 10 and then 9.
StatAnswers == {<<>>, <<0>>, <<10, 9>>}

\* What the diary prompt and the subtask prompt return.
TextAnswers == {Err("io", "could not read from the terminal")} \cup {Ok(t) : t \in Diaries}

\* focus::run once get_focus_day returned the day: today is day 8.
RoutineStart(stats, diary, force_eod, date, hour) ==
    [pc |-> "start", force_eod |-> force_eod, date |-> date, today |-> 8, hour |-> hour,
     focus_day |-> [gid |-> 5, stats |-> stats, diary |-> diary],
     unfilled |-> <<>>, prompted |-> <<>>,
     new_stats |-> stats, new_diary_entry |-> diary,
     units |-> <<>>, result |-> None]

RoutineInit ==
    \E stats \in DayStats, diary \in Diaries, force_eod \in BOOLEAN,
       date \in {7, 8}, hour \in {19, 20} :
        routine = RoutineStart(stats, diary, force_eod, date, hour)

\* commands/focus.rs:218-238: the statistics to ask for are worked out once.
BeginRoutine ==
    /\ routine.pc = "start"
    /\ \E unfilled \in {unfilled_stats_at_this_time(routine.focus_day.stats, routine.force_eod,
                                                     routine.date, routine.today, routine.hour)} :
         routine' = [routine EXCEPT
                        !.unfilled = unfilled,
                        !.new_stats = routine.focus_day.stats,
                        !.pc = IF unfilled = <<>> THEN "diary" ELSE "stats"]
    /\ UNCHANGED <<base_vars, grouping, command, snapshot>>

\* One turn of the loop over the statistics to ask for (commands/focus.rs:
\* 239-253).
PromptStat ==
    /\ routine.pc = "stats"
    /\ \E typed \in StatAnswers :
         \E value \in {interact_text(typed)} :
           routine' =
              IF ~IsOk(value)
              THEN [routine EXCEPT !.pc = "returned", !.result = Some(value)]
              ELSE [routine EXCEPT
                      !.new_stats = set_stat(routine.new_stats,
                                             FocusDayStat(Head(routine.unfilled), Some(value[2]))),
                      !.prompted = Append(routine.prompted, Head(routine.unfilled)),
                      !.unfilled = Tail(routine.unfilled),
                      !.pc = IF Tail(routine.unfilled) = <<>> THEN "diary" ELSE "stats"]
    /\ UNCHANGED <<base_vars, grouping, command, snapshot>>

\* The diary prompt and the dispatch of the sync unit (commands/focus.rs:
\* 258-306).
PromptDiary ==
    /\ routine.pc = "diary"
    /\ \E answer \in TextAnswers :
         routine' =
            IF ~IsOk(answer)
            THEN [routine EXCEPT !.pc = "returned", !.result = Some(answer)]
            ELSE [routine EXCEPT
                    !.new_diary_entry = answer[2],
                    !.units = <<Unit("sync", routine.focus_day.gid)>>,
                    !.pc = "load"]
    /\ UNCHANGED <<base_vars, grouping, command, snapshot>>

\* The sync unit runs to its end.
RunSync ==
    /\ routine.pc \notin {"off", "exited"}
    /\ Len(routine.units) >= 1
    /\ routine.units[1].state = "running"
    /\ \E response \in {Accepted, Refused, SendFailed} :
         \E out \in {sync(client, routine.focus_day, routine.new_stats,
                          routine.new_diary_entry, response)} :
           /\ out.requests = <<>> => response = Accepted
           /\ routine' = [routine EXCEPT
                            !.units[1] = Finish(routine.units[1], out.result, out.requests)]
    /\ UNCHANGED <<base_vars, grouping, command, snapshot>>

\* The subtasks of the day are fetched (commands/focus.rs:308-316).
LoadSubtasks ==
    /\ routine.pc = "load"
    /\ \E loaded \in {Ok("subtasks"), Err("transport", "failed to make request"), TermError} :
         routine' = IF IsOk(loaded)
                    THEN [routine EXCEPT !.pc = "ask"]
                    ELSE Return(routine, loaded)
    /\ UNCHANGED <<base_vars, grouping, command, snapshot>>

\* One turn of the loop that asks for tasks to do today (commands/focus.rs:
\* 324-373): an empty name ends it, any other dispatches a unit that
\* creates the subtask; the lines of the list are then cleared.
AskSubtask ==
    /\ routine.pc = "ask"
    /\ \E answer \in TextAnswers, cleared \in BOOLEAN :
         IF ~IsOk(answer)
         THEN cleared /\ routine' = Return(routine, answer)
         ELSE IF answer[2] = ""
         THEN cleared /\ routine' = [routine EXCEPT !.pc = "join_sync"]
         ELSE /\ Len(routine.units) - 1 < MaxSubtasks
              /\ routine' =
                    IF cleared
                    THEN [routine EXCEPT
                            !.units = Append(routine.units, Unit("subtask", routine.focus_day.gid))]
                    ELSE [routine EXCEPT
                            !.units = Append(routine.units, Unit("subtask", routine.focus_day.gid)),
                            !.pc = "returned",
                            !.result = Some(TermError)]
    /\ UNCHANGED <<base_vars, grouping, command, snapshot>>

\* A subtask unit runs to its end.
RunSubtask ==
    /\ routine.pc \notin {"off", "exited"}
    /\ \E i \in DOMAIN routine.units, response \in {Accepted, Refused, SendFailed} :
         /\ routine.units[i].kind = "subtask"
         /\ routine.units[i].state = "running"
         /\ routine' = [routine EXCEPT
                          !.units[i] = Finish(routine.units[i],
                                              create_subtask(client, response),
                                              <<[method |-> "POST",
                                                 task |-> routine.units[i].target]>>)]
    /\ UNCHANGED <<base_vars, grouping, command, snapshot>>

\* commands/focus.rs:375-377: the sync unit is waited for only if it has
\* not finished yet.
JoinSync ==
    /\ routine.pc = "join_sync"
    /\ \E written \in BOOLEAN :
         IF routine.units[1].state = "finished"
         THEN written /\ routine' = [routine EXCEPT !.pc = "join_subtasks"]
         ELSE routine' = IF written
                         THEN [routine EXCEPT !.pc = "await_sync"]
                         ELSE Return(routine, TermError)
    /\ UNCHANGED <<base_vars, grouping, command, snapshot>>

\* commands/focus.rs:378-379: sync_task.await??
AwaitSync ==
    /\ routine.pc = "await_sync"
    /\ routine.units[1].state = "finished"
    /\ \E cleared \in BOOLEAN :
         IF ~IsOk(routine.units[1].result[1])
         THEN cleared /\ routine' = Return(routine, routine.units[1].result[1])
         ELSE routine' = IF cleared
                         THEN [routine EXCEPT !.pc = "join_subtasks"]
                         ELSE Return(routine, TermError)
    /\ UNCHANGED <<base_vars, grouping, command, snapshot>>

\* commands/focus.rs:381-383, 390: the subtask units are waited for only if
\* one of them has not finished yet.
JoinSubtasks ==
    /\ routine.pc = "join_subtasks"
    /\ \E written \in BOOLEAN :
         IF all_finished(routine.units, 2)
         THEN written /\ routine' = Return(routine, Ok("unit"))
         ELSE routine' = IF written
                         THEN [routine EXCEPT !.pc = "await_subtasks"]
                         ELSE Return(routine, TermError)
    /\ UNCHANGED <<base_vars, grouping, command, snapshot>>

\* commands/focus.rs:384-390: join_all, then the first error.
AwaitSubtasks ==
    /\ routine.pc = "await_subtasks"
    /\ all_finished(routine.units, 2)
    /\ \E cleared \in BOOLEAN :
         IF ~IsOk(join_all(routine.units, 2))
         THEN cleared /\ routine' = Return(routine, join_all(routine.units, 2))
         ELSE routine' = Return(routine, IF cleared THEN Ok("unit") ELSE TermError)
    /\ UNCHANGED <<base_vars, grouping, command, snapshot>>

\* The process ends once the command has returned.
ExitRoutine ==
    /\ routine.pc = "returned"
    /\ routine' = [routine EXCEPT !.pc = "exited", !.units = shutdown(routine.units)]
    /\ UNCHANGED <<base_vars, grouping, command, snapshot>>

\* The due dates of the cached tasks, and the cached lists of at most n
\* tasks; the gid of a task is its place.
CachedDues == {None, Some(8), Some(9)}

RECURSIVE CachedLists(_)
CachedLists(n) ==
    IF n = 0
    THEN {<<>>}
    ELSE CachedLists(n - 1) \cup
         {Append(l, UserTask(n, d)) : l \in {m \in CachedLists(n - 1) : Len(m) = n - 1},
                                      d \in CachedDues}

\* complete::run as it is entered: tasks is the cache's task list.
CompleteStart(use_cache, tasks) ==
    [name |-> "complete", pc |-> "start", use_cache |-> use_cache, tasks |-> tasks,
     completed_indices |-> <<>>, selections |-> <<>>, ended |-> "no",
     units |-> <<>>, prompts |-> 0, requests |-> <<>>, result |-> None]

\* add::run as it is entered, with its name and due arguments.
AddStart(use_cache, workspace_gid, name, due) ==
    [name |-> "add", pc |-> "start", use_cache |-> use_cache,
     workspace_gid |-> workspace_gid, arg_name |-> name, arg_due |-> due,
     units |-> <<>>, prompts |-> 0, requests |-> <<>>, result |-> None]

CommandInit ==
    \/ \E use_cache \in BOOLEAN,
          tasks \in {None} \cup {Some(l) : l \in CachedLists(MaxCached)} :
            command = CompleteStart(use_cache, tasks)
    \/ \E use_cache \in BOOLEAN, workspace_gid \in {None, Some("w")},
          name \in {None, Some(""), Some("n")}, due \in {None, Some("tomorrow"), Some("bad")} :
            command = AddStart(use_cache, workspace_gid, name, due)

\* commands/complete.rs:35-49: no completion in cache-only mode, without a
\* cached list or with an empty one.
BeginComplete ==
    /\ command.pc = "start"
    /\ command.name = "complete"
    /\ \E written \in BOOLEAN :
         IF cache_only(command.use_cache, "complete") # None
         THEN written /\ command' = Return(command, cache_only(command.use_cache, "complete")[1])
         ELSE IF command.tasks = None
         THEN written /\ command' = Return(command, Err("context", "No tasks found"))
         ELSE IF command.tasks[1] = <<>>
         THEN command' = Return(command, IF written THEN Ok("unit") ELSE TermError)
         ELSE written /\ command' = [command EXCEPT !.pc = "select"]
    /\ UNCHANGED <<base_vars, grouping, routine, snapshot>>

\* One turn of the selection loop (commands/complete.rs:55-119).
SelectTask ==
    /\ command.pc = "select"
    /\ \E available \in {available_sorted(command.tasks[1], command.completed_indices)} :
         IF available = <<>>
         THEN \E written \in BOOLEAN :
                command' = IF written
                           THEN [command EXCEPT !.pc = "join", !.ended = "all"]
                           ELSE Return(command, TermError)
         ELSE \E selection \in {Err("io", "could not read from the terminal"), Ok(None)}
                               \cup {Ok(Some(k)) : k \in DOMAIN available} :
                command' =
                   IF ~IsOk(selection)
                   THEN [Return(command, selection) EXCEPT !.prompts = command.prompts + 1]
                   ELSE IF selection[2] = None
                   THEN [command EXCEPT !.pc = "join", !.ended = "esc",
                                        !.prompts = command.prompts + 1]
                   ELSE [command EXCEPT
                           !.prompts = command.prompts + 1,
                           !.completed_indices =
                               Append(command.completed_indices, available[selection[2][1]].idx),
                           !.selections =
                               Append(command.selections,
                                      [shown |-> available,
                                       selected_idx |-> selection[2][1],
                                       original_idx |-> available[selection[2][1]].idx]),
                           !.units =
                               Append(command.units,
                                      Unit("complete", available[selection[2][1]].task.gid))]
    /\ UNCHANGED <<base_vars, grouping, routine, snapshot>>

\* A completion unit runs to its end.
RunComplete ==
    /\ command.pc \notin {"off", "exited"}
    /\ \E i \in DOMAIN command.units, response \in {Accepted, Refused, SendFailed} :
         /\ command.units[i].state = "running"
         /\ command' = [command EXCEPT
                          !.units[i] = Finish(command.units[i],
                                              complete_task(client, response),
                                              <<[method |-> "PUT",
                                                 task |-> command.units[i].target]>>)]
    /\ UNCHANGED <<base_vars, grouping, routine, snapshot>>

\* commands/complete.rs:121-124, 131: the units are waited for only if one
\* of them has not finished yet.
JoinCompletions ==
    /\ command.pc = "join"
    /\ \E written \in BOOLEAN :
         IF all_finished(command.units, 1)
         THEN written /\ command' = Return(command, Ok("unit"))
         ELSE command' = IF written
                         THEN [command EXCEPT !.pc = "await"]
                         ELSE Return(command, TermError)
    /\ UNCHANGED <<base_vars, grouping, routine, snapshot>>

\* commands/complete.rs:125-131: join_all, then the first error.
AwaitCompletions ==
    /\ command.pc = "await"
    /\ all_finished(command.units, 1)
    /\ \E cleared \in BOOLEAN :
         IF ~IsOk(join_all(command.units, 1))
         THEN cleared /\ command' = Return(command, join_all(command.units, 1))
         ELSE command' = Return(command, IF cleared THEN Ok("unit") ELSE TermError)
    /\ UNCHANGED <<base_vars, grouping, routine, snapshot>>

\* commands/add.rs:31-59, 72-74: no task in cache-only mode or without a
\* workspace; a name given on the command line must not be blank, a due
\* date given there must parse.
BeginAdd ==
    /\ command.pc = "start"
    /\ command.name = "add"
    /\ command' =
          IF cache_only(command.use_cache, "add") # None
          THEN Return(command, cache_only(command.use_cache, "add")[1])
          ELSE IF command.workspace_gid = None
          THEN Return(command, Err("context", "Workspace not configured"))
          ELSE IF command.arg_name = None
          THEN [command EXCEPT !.pc = "name"]
          ELSE IF command.arg_name[1] = ""
          THEN Return(command, Err("input", "Task name cannot be empty"))
          ELSE IF command.arg_due = None
          THEN [command EXCEPT !.pc = "create"]
          ELSE IF ~IsOk(parse_flexible_date(command.arg_due[1]))
          THEN Return(command, parse_flexible_date(command.arg_due[1]))
          ELSE [command EXCEPT !.pc = "create"]
    /\ UNCHANGED <<base_vars, grouping, routine, snapshot>>

\* commands/add.rs:48-59: the name is asked for; "" is a blank name.
PromptName ==
    /\ command.pc = "name"
    /\ \E answer \in TextAnswers :
         command' =
            IF ~IsOk(answer)
            THEN [Return(command, answer) EXCEPT !.prompts = command.prompts + 1]
            ELSE IF answer[2] = ""
            THEN [Return(command, Err("input", "Task name cannot be empty"))
                    EXCEPT !.prompts = command.prompts + 1]
            ELSE IF command.arg_due = None
            THEN [command EXCEPT !.pc = "due", !.prompts = command.prompts + 1]
            ELSE IF ~IsOk(parse_flexible_date(command.arg_due[1]))
            THEN [Return(command, parse_flexible_date(command.arg_due[1]))
                    EXCEPT !.prompts = command.prompts + 1]
            ELSE [command EXCEPT !.pc = "desc", !.prompts = command.prompts + 1]
    /\ UNCHANGED <<base_vars, grouping, routine, snapshot>>

\* commands/add.rs:60-71: the due date is asked for; it may be left empty.
PromptDue ==
    /\ command.pc = "due"
    /\ \E answer \in {Err("io", "could not read from the terminal")}
                     \cup {Ok(t) : t \in {"", "tomorrow", "bad"}} :
         command' =
            IF ~IsOk(answer)
            THEN [Return(command, answer) EXCEPT !.prompts = command.prompts + 1]
            ELSE IF answer[2] # "" /\ ~IsOk(parse_flexible_date(answer[2]))
            THEN [Return(command, parse_flexible_date(answer[2]))
                    EXCEPT !.prompts = command.prompts + 1]
            ELSE [command EXCEPT !.pc = "desc", !.prompts = command.prompts + 1]
    /\ UNCHANGED <<base_vars, grouping, routine, snapshot>>

\* commands/add.rs:83-94: the description is asked for.
PromptDescription ==
    /\ command.pc = "desc"
    /\ \E answer \in TextAnswers :
         command' =
            IF ~IsOk(answer)
            THEN [Return(command, answer) EXCEPT !.prompts = command.prompts + 1]
            ELSE [command EXCEPT !.pc = "create", !.prompts = command.prompts + 1]
    /\ UNCHANGED <<base_vars, grouping, routine, snapshot>>

\* commands/add.rs:99-137: the task is created.
CreateTask ==
    /\ command.pc = "create"
    /\ \E response \in {Accepted, Refused, SendFailed}, written \in BOOLEAN :
         /\ response # Accepted => written
         /\ command' = [Return(command, create_task(client, response, written))
                          EXCEPT !.requests = Append(command.requests,
                                                     [method |-> "POST", response |-> response])]
    /\ UNCHANGED <<base_vars, grouping, routine, snapshot>>

\* The process ends once the command has returned.
ExitCommand ==
    /\ command.pc = "returned"
    /\ command' = [command EXCEPT !.pc = "exited", !.units = shutdown(command.units)]
    /\ UNCHANGED <<base_vars, grouping, routine, snapshot>>

\* The cache at start-up: empty but for the credential and the task list
\* id, or filled by an earlier run with today's focus day.
CachedDay(stats) ==
    [task |-> [gid |-> 5, section |-> 1, name |-> DayName(8), notes |-> "",
               custom_fields |-> Some(<<>>)],
     date |-> 8, stats |-> stats, diary |-> ""]

Caches ==
    {[creds |-> "c", user_task_list |-> "u", tasks |-> None, focus_day |-> None,
      last_updated |-> None]}
    \cup {[creds |-> "c", user_task_list |-> "u", tasks |-> Some("d0"),
           focus_day |-> Some(CachedDay(stats)), last_updated |-> Some(0)] :
              stats \in {DefaultStats, AllSet}}

\* The focus project on the server: empty, or with the week of day 7 and
\* that day in it.
SnapshotRemotes ==
    {[sections |-> <<>>, tasks |-> <<>>, next_gid |-> 6],
     [sections |-> <<[gid |-> 1, name |-> WeekName(7, 13)]>>,
      tasks |-> <<[gid |-> 5, section |-> 1, name |-> DayName(7), notes |-> "",
                   custom_fields |-> Some(<<[gid |-> field_gid("Sleep"),
                                             number_value |-> Some(9)]>>)]>>,
      next_gid |-> 6]}

\* One run of the program with the status, summary or update command: the
\* cache as loaded, the file it was loaded from, and the configuration.
\* Today is day 8.
SnapshotStart(name, use_cache, focus_project_gid, cache, hour) ==
    [pc |-> "start", name |-> name, use_cache |-> use_cache,
     focus_project_gid |-> focus_project_gid, today |-> 8, hour |-> hour,
     cache |-> cache, file |-> cache,
     requests |-> <<>>, status |-> None, message |-> None, refreshes |-> <<>>,
     result |-> None]

SnapshotInit ==
    /\ remote \in SnapshotRemotes
    /\ focus_obs = None
    /\ \E name \in {"status", "summary", "update"}, use_cache \in BOOLEAN,
          focus_project_gid \in {None, Some("p")}, cache \in Caches,
          hour \in {19, 20} :
            snapshot = SnapshotStart(name, use_cache, focus_project_gid, cache, hour)

\* What a call of get_focus_day gives when it is made, and what there is
\* when it is not.
Resolved(needed, env) ==
    IF needed
    THEN get_focus_day(snapshot.today, client, now, remote, env)
    ELSE FocusOutcome(remote, Ok("none"), <<>>, <<>>)

\* Where main goes after the command: to the refresh that ends every run
\* outside the cache-only mode (main.rs:2136-2138).
AfterCommand(run) ==
    IF run.use_cache
    THEN Return(run, Ok("unit"))
    ELSE [run EXCEPT !.pc = "refresh"]

\* status::run (commands/status.rs:180-223).
RunStatus ==
    /\ snapshot.pc = "start"
    /\ snapshot.name = "status"
    /\ \E env \in FocusEnvs, written \in BOOLEAN :
         \E needed \in {status_resolves(snapshot.focus_project_gid, snapshot.cache,
                                        snapshot.use_cache)} :
           \E out \in {Resolved(needed, env)} :
             /\ remote' = out.remote
             /\ snapshot' =
                  IF ~IsOk(out.result)
                  THEN [Return(snapshot, out.result) EXCEPT
                          !.requests = snapshot.requests \o out.events]
                  ELSE [(IF written THEN AfterCommand(snapshot)
                                    ELSE Return(snapshot, TermError)) EXCEPT
                          !.requests = snapshot.requests \o out.events,
                          !.status =
                              Some(Status_new(IF snapshot.focus_project_gid = None
                                              THEN None
                                              ELSE IF needed
                                              THEN Some(out.result[2])
                                              ELSE cached_focus_day(snapshot.cache,
                                                                    snapshot.use_cache),
                                              snapshot.today, snapshot.hour))]
    /\ UNCHANGED <<now, client_vars, lock_vars, conc_vars, flow_vars, stats_vars,
                   focus_obs, grouping, routine, command>>

\* summary::run (commands/summary.rs:25-110): the line about the tasks, the
\* focus day, the reminder.
RunSummary ==
    /\ snapshot.pc = "start"
    /\ snapshot.name = "summary"
    /\ \E env \in FocusEnvs, written \in {"none", "summary", "all"} :
         \E needed \in {written # "none"
                        /\ summary_resolves(snapshot.focus_project_gid, snapshot.cache,
                                            snapshot.use_cache)} :
           \E out \in {Resolved(needed, env)} :
             /\ remote' = out.remote
             /\ snapshot' =
                  IF written = "none"
                  THEN Return(snapshot, TermError)
                  ELSE IF ~IsOk(out.result)
                  THEN [Return(snapshot, out.result) EXCEPT
                          !.requests = snapshot.requests \o out.events]
                  ELSE LET focus_day == IF needed
                                        THEN out.result[2]
                                        ELSE snapshot.cache.focus_day[1]
                           message == focus_message(focus_day, snapshot.today, snapshot.hour)
                       IN  [(IF written = "all" \/ message = None
                             THEN AfterCommand(snapshot)
                             ELSE Return(snapshot, TermError)) EXCEPT
                               !.requests = snapshot.requests \o out.events,
                               !.message = IF written = "all" THEN message ELSE None]
    /\ UNCHANGED <<now, client_vars, lock_vars, conc_vars, flow_vars, stats_vars,
                   focus_obs, grouping, routine, command>>

\* One call of refresh_cache (main.rs:923-940): by the update command
\* (main.rs:1755-1757) and, outside the cache-only mode, at the end of main.
RefreshCache ==
    /\ \/ snapshot.pc = "refresh"
       \/ snapshot.pc = "start" /\ snapshot.name = "update"
    /\ \E response \in {Accepted, Refused, SendFailed}, env \in FocusEnvs,
          io \in {"ok", "create", "write"} :
         \E tasks \in {Fetch(client, now, "user_task_list", response)} :
           \E out \in {Resolved(IsOk(tasks), env)} :
             \E done \in {refresh_cache(snapshot.cache, snapshot.file, tasks, out.result,
                                        now, io)} :
               /\ io # "ok" => IsOk(tasks) /\ IsOk(out.result)
               /\ remote' = out.remote
               /\ snapshot' =
                    [(IF IsOk(done.result) /\ snapshot.pc = "start"
                      THEN AfterCommand(snapshot)
                      ELSE Return(snapshot, done.result)) EXCEPT
                        !.cache = done.cache,
                        !.file = done.file,
                        !.requests = snapshot.requests
                                       \o <<Request("GET", "user_task_list", 0, 0)>>
                                       \o out.events,
                        !.refreshes =
                            Append(snapshot.refreshes,
                                   [before |-> [cache |-> snapshot.cache, file |-> snapshot.file],
                                    tasks |-> tasks, focus_day |-> out.result,
                                    time |-> now,
                                    after |-> [cache |-> done.cache, file |-> done.file],
                                    result |-> done.result])]
    /\ UNCHANGED <<now, client_vars, lock_vars, conc_vars, flow_vars, stats_vars,
                   focus_obs, grouping, routine, command>>

\* ------------------------------------------------------- specifications
\* The Asana client.
Init ==
    /\ ClientInit
    /\ LockInit
    /\ ConcInit
    /\ FlowInit
    /\ LaterIdle
    /\ StatsIdle
    /\ FocusIdle
    /\ now = 0

Next == Get \/ Refresh \/ Mutate \/ Tick

Spec == Init /\ [][Next]_vars

\* The lock on its own: one client that is never used, processes taking
\* and dropping the lock one call at a time.
InitLock ==
    /\ client = NewClient(PersonalAccessToken(1))
    /\ reauth_at = None
    /\ obs = [op |-> "new", pre |-> client, url |-> "u1",
              since |-> None, responses |-> <<>>, auth |-> None,
              reauth |-> None, result |-> Ok("unit"), events |-> <<>>]
    /\ LockInit
    /\ ConcInit
    /\ FlowInit
    /\ LaterIdle
    /\ StatsIdle
    /\ FocusIdle
    /\ now = 0

NextLock == (\E p \in Procs : Acquire(p)) \/ (\E p \in Procs : DropGuard(p)) \/ Tick

SpecLock == InitLock /\ [][NextLock]_vars

\* The lock with the steps of acquire_auth_lock interleaved.
NextLockSteps ==
    \/ \E p \in Procs : CheckValid(p)
    \/ \E p \in Procs : CheckExists(p)
    \/ \E p \in Procs : RemoveStale(p)
    \/ \E p \in Procs : CreateNew(p)
    \/ \E p \in Procs : WriteAll(p)
    \/ \E p \in Procs : Release(p)
    \/ Tick

SpecLockSteps == InitLock /\ [][NextLockSteps]_vars

\* Processes authorizing at start-up.
NextFlow ==
    \/ \E p \in Procs : ReachFlow(p)
    \/ \E p \in Procs : AnswerPrompt(p)
    \/ \E p \in Procs : RunAgain(p)

SpecFlow == InitLock /\ [][NextFlow]_vars

\* A client that is never used.
ClientIdle ==
    /\ client = NewClient(PersonalAccessToken(1))
    /\ reauth_at = None
    /\ obs = [op |-> "new", pre |-> client, url |-> "u1",
              since |-> None, responses |-> <<>>, auth |-> None,
              reauth |-> None, result |-> Ok("unit"), events |-> <<>>]

\* Decoding of the custom field lists the server sends.
InitStats ==
    /\ ClientIdle
    /\ LockInit
    /\ ConcInit
    /\ FlowInit
    /\ LaterIdle
    /\ StatsInit
    /\ FocusIdle
    /\ now = 0

NextStats == Decode

SpecStats == InitStats /\ [][NextStats]_vars

\* Focus resolution against a project on the server.
InitFocus ==
    /\ ClientIdle
    /\ LockInit
    /\ ConcInit
    /\ FlowInit
    /\ LaterIdle
    /\ StatsIdle
    /\ FocusInit
    /\ now = 0

NextFocus == GetFocusDay

SpecFocus == InitFocus /\ [][NextFocus]_vars

\* Everything but the commands at rest.
RestIdle ==
    /\ ClientIdle
    /\ LockInit
    /\ ConcInit
    /\ FlowInit
    /\ StatsIdle
    /\ FocusIdle
    /\ now = 0

\* Grouping of task lists by due date.
InitGroup ==
    /\ RestIdle
    /\ GroupingInit
    /\ routine = Off
    /\ command = Off
    /\ snapshot = Off

NextGroup == FromTasks

SpecGroup == InitGroup /\ [][NextGroup]_vars

\* The focus routine from the resolved day to the end of the sync unit.
InitRoutine ==
    /\ RestIdle
    /\ grouping = None
    /\ RoutineInit
    /\ command = Off
    /\ snapshot = Off

NextRoutine == BeginRoutine \/ PromptStat \/ PromptDiary \/ RunSync

SpecRoutine == InitRoutine /\ [][NextRoutine]_vars

\* The commands that dispatch background units or refuse the cache-only
\* mode: one run of focus, of complete or of add.  The day of the focus
\* run has all its statistics or all but one, and an empty diary.
InitCommands ==
    /\ RestIdle
    /\ grouping = None
    /\ snapshot = Off
    /\ \/ /\ command = Off
          /\ \E stats \in {AllSet, [AllSet EXCEPT !["Sleep"] = None]} :
                routine = RoutineStart(stats, "", FALSE, 8, 19)
       \/ /\ routine = Off
          /\ CommandInit

NextCommands ==
    \/ BeginRoutine \/ PromptStat \/ PromptDiary \/ RunSync \/ LoadSubtasks
    \/ AskSubtask \/ RunSubtask \/ JoinSync \/ AwaitSync \/ JoinSubtasks
    \/ AwaitSubtasks \/ ExitRoutine
    \/ BeginComplete \/ SelectTask \/ RunComplete \/ JoinCompletions
    \/ AwaitCompletions \/ BeginAdd \/ PromptName \/ PromptDue
    \/ PromptDescription \/ CreateTask \/ ExitCommand

SpecCommands == InitCommands /\ [][NextCommands]_vars

\* The commands that read the focus day or refresh the cache: one run of
\* status, of summary or of update.
InitSnapshot ==
    /\ ClientIdle
    /\ LockInit
    /\ ConcInit
    /\ FlowInit
    /\ StatsIdle
    /\ now = 1
    /\ grouping = None
    /\ routine = Off
    /\ command = Off
    /\ SnapshotInit

NextSnapshot == RunStatus \/ RunSummary \/ RefreshCache

SpecSnapshot == InitSnapshot /\ [][NextSnapshot]_vars

\* ---------------------------------------------------------------- claims
\* Shorthands over the record of the last call.
Gets == Count("GET", obs.events)

Reauths == Count("refresh", obs.events)

InEvents(e) == Count(e, obs.events) > 0

FirstIs401 ==
    /\ obs.op = "get"
    /\ obs.responses[1].sent
    /\ obs.responses[1].status = 401

\* A reauthentication was attempted less than 5 minutes before the call.
RecentReauth == obs.since # None /\ obs.since[1] < 300

\* The first and the last network event of the call are a GET of the call's URL.
SameGetTwice ==
    /\ Gets = 2
    /\ obs.events[1] = "GET" /\ obs.events[2] = obs.url
    /\ obs.events[Len(obs.events) - 1] = "GET"
    /\ obs.events[Len(obs.events)] = obs.url

\* What a GET's answer amounts to for the caller: a transport error, the
\* decoded value, or a decode error.
Outcome(r) ==
    IF ~r.sent THEN <<"Err", "transport", "failed to make request">>
    ELSE IF r.body = "d1" THEN <<"Ok", "d1">>
    ELSE <<"Err", "decode", "error decoding response body">>

PreOAuth2 == obs.pre.credentials[1] = "OAuth2"

PreHasRefreshToken == PreOAuth2 /\ obs.pre.credentials[3] # <<>>

\* C1 as stated: for every call of get, a first 401 with no reauthentication
\* in the last 5 minutes leads to exactly one refresh and then exactly one
\* more GET of the same URL, whose outcome get returns; otherwise there is no
\* refresh and no second GET; never more than 2 GETs or 1 reauthentication.
C1_Original ==
    obs.op = "get" =>
        /\ (FirstIs401 /\ ~RecentReauth =>
                /\ Reauths = 1
                /\ SameGetTwice
                /\ obs.result = Outcome(obs.responses[2]))
        /\ (~FirstIs401 => Reauths = 0 /\ Gets = 1)
        /\ Gets <= 2
        /\ Reauths <= 1

\* C1 amended: for every call of get, a first 401 with no reauthentication
\* in the last 5 minutes leads to exactly one refresh; when the refresh
\* succeeds the same GET is reissued exactly once and its outcome is what get
\* returns, when the refresh fails get returns the refresh error and issues
\* no second GET.  A first answer other than 401 leads to no refresh and no
\* second GET.  No call makes more than 2 GETs or more than 1 reauthentication.
C1_Amended ==
    obs.op = "get" =>
        /\ (FirstIs401 /\ ~RecentReauth =>
                /\ Reauths = 1
                /\ obs.reauth # None
                /\ IF obs.reauth[1][1] = "Ok"
                   THEN SameGetTwice /\ obs.result = Outcome(obs.responses[2])
                   ELSE Gets = 1 /\ obs.result = obs.reauth[1])
        /\ (~FirstIs401 => Reauths = 0 /\ Gets = 1 /\ obs.reauth = None)
        /\ Gets <= 2
        /\ Reauths <= 1

C1_Witness ==
    /\ FirstIs401
    /\ ~RecentReauth
    /\ obs.reauth # None
    /\ obs.reauth[1][1] = "Ok"
    /\ Gets = 2
    /\ obs.responses[2].sent /\ obs.responses[2].status = 200
    /\ obs.result = <<"Ok", "d1">>

\* C2 as stated: a 401 arriving less than 5 minutes after the client's last
\* reauthentication makes get fail at once with UnableToRefreshAccessToken,
\* without a refresh, without another request, credentials unchanged.
C2_Claim ==
    FirstIs401 /\ RecentReauth =>
        /\ obs.result[1] = "Err"
        /\ obs.result[2] = "UnableToRefreshAccessToken"
        /\ obs.reauth = None
        /\ Reauths = 0
        /\ Gets = 1
        /\ client.credentials = obs.pre.credentials

\* C3 as stated: every reauthentication attempt leaves its timestamp in the
\* client, and a get never starts a reauthentication less than 5 minutes
\* after the previous attempt.
C3_Claim ==
    /\ (obs.reauth # None => client.last_refresh_attempt # None)
    /\ (obs.op = "get" /\ obs.reauth # None /\ obs.since # None
            => obs.since[1] >= 300)

\* C4: mutate_request makes exactly one request, to the given URL with the
\* given method, hands back the raw response whatever its status, never
\* reauthenticates, and leaves the client (credentials, transport,
\* last_refresh_attempt) as it was.
C4_Theorem ==
    obs.op = "mutate_request" =>
        /\ Len(obs.events) = 2
        /\ obs.events[1] \in {"POST", "PUT"}
        /\ obs.events[2] = obs.url
        /\ obs.reauth = None
        /\ Reauths = 0
        /\ client = obs.pre
        /\ (obs.responses[1].sent =>
                obs.result[1] = "Ok" /\ obs.result[2] = obs.responses[1])

C4_Witness ==
    /\ obs.op = "mutate_request"
    /\ obs.responses[1].sent
    /\ obs.responses[1].status = 401
    /\ obs.pre.credentials[1] = "OAuth2"
    /\ obs.result[1] = "Ok"

\* C5 as stated: when the GET that get ends with is answered by a non-2xx
\* status (other than 401 for the first GET), get returns an API error for
\* that status and body, not the decode error.
C5_Claim ==
    obs.op = "get" =>
        LET last == obs.responses[Len(obs.responses)]
        IN  (/\ last.sent
             /\ last.status \notin 200..299
             /\ (Len(obs.responses) = 2 \/ last.status # 401))
            => (obs.result[1] = "Err" /\ obs.result[2] = "api")

\* The reauthentication's environment fails at one of its steps: the token
\* exchange, or (when the interactive flow runs) the browser or the prompt.
StepFails ==
    \/ obs.auth[1].fail = "exchange"
    \/ ~PreHasRefreshToken /\ obs.auth[1].fail \in {"browser", "input"}

\* The credential a successful reauthentication yields.
NewCredential ==
    <<"OAuth2", obs.auth[1].access_token,
      IF PreHasRefreshToken /\ obs.auth[1].refresh_token = <<>>
      THEN obs.pre.credentials[3]
      ELSE obs.auth[1].refresh_token>>

\* C6: when a reauthentication step fails, refresh returns the error, the
\* credential is the one held before the call, and a get that triggered it
\* returns that error without a second GET; when refresh succeeds the
\* credential is the new value as a whole.
C6_Theorem ==
    obs.reauth # None /\ PreOAuth2 =>
        IF StepFails
        THEN /\ obs.reauth[1][1] = "Err"
             /\ obs.result = obs.reauth[1]
             /\ client.credentials = obs.pre.credentials
             /\ (obs.op = "get" => Gets = 1)
        ELSE obs.reauth[1][1] = "Ok" => client.credentials = NewCredential

C6_Witness ==
    /\ obs.op = "get"
    /\ obs.reauth # None
    /\ PreHasRefreshToken
    /\ obs.auth[1].fail = "exchange"
    /\ obs.result[1] = "Err"
    /\ obs.result[2] = "exchange"

\* C7: a successful refresh with refresh token R yields an OAuth2 credential
\* with the response's access token and the response's refresh token, or R
\* when the response has none; the refresh token is never absent.
C7_Theorem ==
    (obs.reauth # None /\ obs.reauth[1][1] = "Ok" /\ PreHasRefreshToken) =>
        /\ client.credentials[1] = "OAuth2"
        /\ client.credentials[2] = obs.auth[1].access_token
        /\ client.credentials[3] =
              (IF obs.auth[1].refresh_token # <<>>
               THEN obs.auth[1].refresh_token
               ELSE obs.pre.credentials[3])
        /\ client.credentials[3] # <<>>

C7_Witness ==
    /\ obs.op = "refresh"
    /\ obs.reauth[1][1] = "Ok"
    /\ obs.pre.credentials = <<"OAuth2", 1, <<2>>>>
    /\ obs.auth[1].refresh_token = <<>>
    /\ client.credentials = <<"OAuth2", 2, <<2>>>>

\* C8: with a personal access token, refresh always fails with
\* UnableToRefreshAccessToken, makes no network call and no prompt and
\* leaves the client as it was; a get answered 401 fails after exactly one
\* GET, and the credential stays the static token, so every later call does
\* the same.
C8_Theorem ==
    obs.pre.credentials[1] = "PersonalAccessToken" =>
        /\ client.credentials = obs.pre.credentials
        /\ (obs.reauth # None =>
                /\ obs.reauth[1] = <<"Err", "UnableToRefreshAccessToken", "not using OAuth2 flow">>
                /\ client = obs.pre
                /\ ~InEvents("exchange_refresh_token")
                /\ ~InEvents("exchange_code")
                /\ ~InEvents("open_browser")
                /\ ~InEvents("prompt"))
        /\ (FirstIs401 =>
                /\ Gets = 1
                /\ obs.result[1] = "Err"
                /\ obs.result[2] = "UnableToRefreshAccessToken")

C8_Witness ==
    /\ FirstIs401
    /\ obs.pre.credentials[1] = "PersonalAccessToken"
    /\ obs.reauth # None
    /\ Gets = 1

\* The interactive flow ran to its end in the last reauthentication.
FlowCompleted == InEvents("exchange_code") /\ obs.auth[1].fail \in {"none", "http"}

\* C9 as stated: refresh exchanges the refresh token when the credential is
\* OAuth2 with a refresh token; in every other case, a static token
\* included, it restarts the interactive flow, whose result becomes the
\* credential.
C9_Original ==
    obs.reauth # None =>
        IF PreHasRefreshToken
        THEN InEvents("exchange_refresh_token") /\ ~InEvents("prompt")
        ELSE /\ InEvents("open_browser")
             /\ ~InEvents("exchange_refresh_token")
             /\ (FlowCompleted =>
                    client.credentials =
                        <<"OAuth2", obs.auth[1].access_token, obs.auth[1].refresh_token>>)

\* C9 amended: refresh exchanges the refresh token when the credential is
\* OAuth2 with a refresh token; restarts the interactive flow, whose result
\* becomes the credential, when it is OAuth2 without a refresh token; and
\* with a static token starts no flow at all: it fails with
\* UnableToRefreshAccessToken and keeps the credential.
C9_Amended ==
    obs.reauth # None =>
        IF PreHasRefreshToken
        THEN InEvents("exchange_refresh_token") /\ ~InEvents("prompt")
        ELSE IF PreOAuth2
        THEN /\ InEvents("open_browser")
             /\ ~InEvents("exchange_refresh_token")
             /\ (FlowCompleted =>
                    client.credentials =
                        <<"OAuth2", obs.auth[1].access_token, obs.auth[1].refresh_token>>)
        ELSE /\ ~InEvents("open_browser")
             /\ ~InEvents("prompt")
             /\ ~InEvents("exchange_refresh_token")
             /\ obs.reauth[1][1] = "Err"
             /\ obs.reauth[1][2] = "UnableToRefreshAccessToken"
             /\ client.credentials = obs.pre.credentials

C9_Witness ==
    /\ obs.op = "refresh"
    /\ obs.pre.credentials = <<"OAuth2", 1, <<>>>>
    /\ InEvents("prompt")
    /\ obs.reauth[1][1] = "Ok"
    /\ client.credentials = <<"OAuth2", 2, <<1>>>>

\* C10: while a process holds the lock it acquired at time t, an
\* acquire_auth_lock made less than 300 seconds after t fails with
\* AlreadyLocked and does not touch the file; one made 300 seconds or more
\* after t removes the stale file first and then, unless the write itself
\* fails, succeeds with the current time in the file.
C10_Theorem ==
    lock_obs # None =>
        LET o == lock_obs[1]
        IN  (o.held # {} /\ o.pre # <<>> /\ o.pre[1] # <<>>) =>
                IF o.time - o.pre[1][1] < 300
                THEN /\ o.result[1] = "Err"
                     /\ o.result[2] = "AlreadyLocked"
                     /\ o.events = <<>>
                     /\ o.file = o.pre
                ELSE /\ o.events = <<"remove_file", "create_new", "write_all">>
                     /\ (o.io = "ok" =>
                            o.result[1] = "Ok" /\ o.file = <<<<o.time>>>>)

C10_Witness ==
    /\ lock_obs # None
    /\ lock_obs[1].held = {"A"}
    /\ lock_obs[1].proc = "B"
    /\ lock_obs[1].pre = <<<<0>>>>
    /\ lock_obs[1].time = 300
    /\ lock_obs[1].result[1] = "Ok"
    /\ lock_obs[1].events[1] = "remove_file"
    /\ lock_file = <<<<300>>>>
    /\ guards = {"A", "B"}

\* Two processes hold a guard whose locks were both taken less than 300
\* seconds ago.
TwoFreshGuards ==
    \E p \in Procs, q \in Procs :
        /\ p # q
        /\ p \in guards /\ q \in guards
        /\ now - timestamp[p] < 300
        /\ now - timestamp[q] < 300

\* C11 as stated: however the steps of acquire_auth_lock and the guard
\* releases of several processes interleave, two processes never both hold
\* a guard while the locks they acquired are fresh, and no process ever
\* removes a lock file that another process created less than 300 seconds
\* before.
C11_Claim == ~TwoFreshGuards /\ ~fresh_removed

\* A step in which some process gave up its guard.
GuardDropped == guards' # guards /\ guards' \subseteq guards

\* An acquire_auth_lock that started with no lock file, or with the empty
\* file a failed timestamp write leaves behind.
AfterReleaseOrFailedWrite ==
    /\ lock_obs # None
    /\ lock_obs[1].pre \in {None, Some(None)}

Prompting == {p \in Procs : flow[p] = "prompt"}

\* C13 as stated: a process is in the interactive flow only while it holds
\* the authorization lock, so of two processes that reach the flow together
\* at most one prompts the operator.
C13_Claim ==
    /\ \A p \in Prompting : p \in guards
    /\ Cardinality(Prompting) <= 1

Kinds == {StatKinds[i] : i \in DOMAIN StatKinds}

UnknownGid == Err("decode", "unknown focus day stat gid")

\* The value the last field of kind k in the list carries, None when the
\* list has no such field.
LastValue(k) ==
    LET at == {i \in DOMAIN custom_fields : custom_fields[i].gid = field_gid(k)}
    IN  IF at = {} THEN None
        ELSE custom_fields[CHOOSE i \in at : \A j \in at : j <= i].number_value

\* C18: field_gid gives the seven kinds seven different identifiers; a
\* field carrying field_gid(k) and the value v decodes to kind k with value
\* v; a field carrying any other identifier fails with "unknown focus day
\* stat gid"; a list with such a field fails as a whole with that error, and
\* a list without one decodes to the statistics its fields carry.
C18_Theorem ==
    /\ \A k1 \in Kinds, k2 \in Kinds : field_gid(k1) = field_gid(k2) => k1 = k2
    /\ Len(StatKinds) = 7 /\ Cardinality(Kinds) = 7
    /\ decoded # None =>
        LET each == decoded[1].each
            all == decoded[1].all
            unknown == {i \in DOMAIN custom_fields :
                            \A k \in Kinds : custom_fields[i].gid # field_gid(k)}
        IN  /\ \A i \in DOMAIN custom_fields, k \in Kinds :
                    custom_fields[i].gid = field_gid(k) =>
                        each[i] = Ok(<<k, custom_fields[i].number_value>>)
            /\ \A i \in unknown : each[i] = UnknownGid
            /\ unknown # {} => all = UnknownGid
            /\ unknown = {} =>
                    /\ all[1] = "Ok"
                    /\ \A k \in Kinds : all[2][k] = LastValue(k)

\* A list of a known field with a value, followed by an unknown one, was
\* decoded.
C18_Witness ==
    /\ decoded # None
    /\ Len(custom_fields) = 2
    /\ custom_fields[1] = [gid |-> "1204172638540769", number_value |-> <<9>>]
    /\ custom_fields[2].gid = "1204172638540779"
    /\ decoded[1].each[1] = <<"Ok", <<"Flow", <<9>>>>>>
    /\ decoded[1].all = UnknownGid

\* The last call of get_focus_day, once there was one.
Called == focus_obs # None

\* The positions, among the requests of the last call, of the POSTs to path.
Posts(path) ==
    {i \in DOMAIN focus_obs[1].events :
        focus_obs[1].events[i].method = "POST" /\ focus_obs[1].events[i].path = path}

Mutations == Posts("sections") \cup Posts("tasks") \cup Posts("addTask")

\* C14: when get_focus_day(d) has succeeded, a second get_focus_day(d)
\* against the project as the first call left it makes no POST (no week
\* creation, no day creation, no ordering), whatever the server answers,
\* and if it succeeds it returns the Focus Day the first call returned.
C14_Theorem ==
    (Called /\ IsOk(focus_obs[1].result)) =>
        \A env \in FocusEnvs :
            LET second == get_focus_day(focus_obs[1].day, client, now, remote, env)
            IN  /\ \A i \in DOMAIN second.events : second.events[i].method = "GET"
                /\ second.remote = remote
                /\ IsOk(second.result) => second.result = focus_obs[1].result

\* The first call created the week and the day and ordered nothing; the
\* second returns the same day.
C14_Witness ==
    /\ Called
    /\ IsOk(focus_obs[1].result)
    /\ Posts("sections") # {} /\ Posts("tasks") # {}
    /\ focus_obs[1].day = 0
    /\ get_focus_day(0, client, now, remote, AllAccepted).result = focus_obs[1].result
    /\ focus_obs[1].result[2].date = 0

\* The section whose tasks the last call fetched.
FetchedWeek ==
    LET at == {i \in DOMAIN focus_obs[1].events :
                  focus_obs[1].events[i].method = "GET" /\ focus_obs[1].events[i].path = "tasks"}
    IN  focus_obs[1].events[CHOOSE i \in at : TRUE].a

TasksFetched ==
    Called /\ Len(focus_obs[1].responses) >= 2
           /\ \E i \in DOMAIN focus_obs[1].events :
                  /\ focus_obs[1].events[i].method = "GET"
                  /\ focus_obs[1].events[i].path = "tasks"
                  /\ focus_obs[1].responses[i] = Accepted

\* The Focus Days the week held when the last call fetched its tasks: the
\* records of the section that convert to a FocusDay.
DaysBefore ==
    collect_focus_days(SelectSeq(focus_obs[1].pre.tasks, LAMBDA t : t.section = FetchedWeek))

EarlierDays == {i \in DOMAIN DaysBefore : DaysBefore[i].date < focus_obs[1].day}

\* The last call had a day created: its POST /tasks was accepted.
DayCreated ==
    /\ TasksFetched
    /\ \E i \in Posts("tasks") : focus_obs[1].responses[i] = Accepted

\* The tasks the project holds now and did not hold before the last call.
NewTasks ==
    {remote.tasks[i].gid : i \in DOMAIN remote.tasks} \
        {focus_obs[1].pre.tasks[i].gid : i \in DOMAIN focus_obs[1].pre.tasks}

\* C15: a call that creates the day of d in a week that held Focus Days
\* dated before d makes exactly one addTask request, for the new task, with
\* insert_after naming a Focus Day of the week whose date is the greatest
\* below d; in a week without such days it makes no addTask request; a call
\* that finds the Focus Day of d among the week's makes neither a POST
\* /tasks nor an addTask request.
C15_Theorem ==
    /\ DayCreated =>
        IF EarlierDays # {}
        THEN /\ Cardinality(Posts("addTask")) = 1
             /\ \A p \in Posts("addTask") :
                    /\ focus_obs[1].events[p].a \in NewTasks
                    /\ \E i \in EarlierDays :
                          /\ DaysBefore[i].task.gid = focus_obs[1].events[p].b
                          /\ \A j \in EarlierDays : DaysBefore[j].date <= DaysBefore[i].date
        ELSE Posts("addTask") = {}
    /\ (TasksFetched /\ \E i \in DOMAIN DaysBefore : DaysBefore[i].date = focus_obs[1].day) =>
            Posts("tasks") = {} /\ Posts("addTask") = {}

\* The week held the days of 7 and 8; the day of 9 was created and put
\* after the day of 8.
C15_Witness ==
    /\ DayCreated
    /\ focus_obs[1].day = 9
    /\ {DaysBefore[i].date : i \in DOMAIN DaysBefore} = {7, 8}
    /\ \E p \in Posts("addTask"), i \in DOMAIN DaysBefore :
            /\ DaysBefore[i].date = 8
            /\ focus_obs[1].events[p].b = DaysBefore[i].task.gid
    /\ IsOk(focus_obs[1].result)

\* The Focus Weeks among the sections the last call fetched.
WeeksBefore == collect_focus_weeks(focus_obs[1].pre.sections)

SectionsFetched == Called /\ focus_obs[1].responses[1] = Accepted

\* C16 as stated: when the fetched sections hold Focus Weeks and none of
\* them contains the date, exactly one week is created, for the Monday to
\* Sunday around the date, with insert_before naming the known week whose
\* from date is the smallest, in whatever order the server listed them.
C16_Claim ==
    (/\ SectionsFetched
     /\ WeeksBefore # <<>>
     /\ \A i \in DOMAIN WeeksBefore :
            ~(WeeksBefore[i].from <= focus_obs[1].day /\ WeeksBefore[i].to >= focus_obs[1].day)) =>
        /\ Cardinality(Posts("sections")) = 1
        /\ \A p \in Posts("sections") :
              /\ focus_obs[1].events[p].b = first_day(focus_obs[1].day)
              /\ \E i \in DOMAIN WeeksBefore :
                    /\ WeeksBefore[i].section.gid = focus_obs[1].events[p].a
                    /\ \A j \in DOMAIN WeeksBefore : WeeksBefore[i].from <= WeeksBefore[j].from

\* The name matches FOCUS_DAY_PATTERN.
IsDailyName(name) == name[1] = DAY_PREFIX /\ Len(name) = 3

\* C17 as stated: starting from a project in which no week holds two daily
\* records of one date, no sequence of get_focus_day calls leads to a week
\* that holds two records whose names match the daily pattern with the same
\* date, also when a record has no custom fields or an unknown one.
C17_Claim ==
    \A i \in DOMAIN remote.tasks, j \in DOMAIN remote.tasks :
        (/\ i # j
         /\ remote.tasks[i].section = remote.tasks[j].section
         /\ IsDailyName(remote.tasks[i].name)
         /\ IsDailyName(remote.tasks[j].name)) =>
            remote.tasks[i].name[3] # remote.tasks[j].name[3]

\* The daily records of the date asked for, in the week whose tasks the
\* last call fetched, that carry a custom field of an unknown identifier.
UnknownFieldRecords ==
    {i \in DOMAIN focus_obs[1].pre.tasks :
        LET t == focus_obs[1].pre.tasks[i]
        IN  /\ t.section = FetchedWeek
            /\ IsDailyName(t.name)
            /\ t.name[3] = focus_obs[1].day
            /\ t.custom_fields # None
            /\ \E k \in DOMAIN t.custom_fields[1] :
                  \A kind \in Kinds : t.custom_fields[1][k].gid # field_gid(kind)}

\* C19 as stated: when the daily record of the date asked for carries a
\* custom field of an unknown identifier, get_focus_day returns the decode
\* error and makes no POST /tasks for that date.
C19_Claim ==
    (TasksFetched /\ UnknownFieldRecords # {}) =>
        /\ focus_obs[1].result = UnknownGid
        /\ Posts("tasks") = {}

\* C20 as stated: a request of get_focus_day that is not delivered or is
\* answered with a status other than success makes the call return an
\* error, and is the last request of the call.
C20_Claim ==
    Called =>
        \A i \in DOMAIN focus_obs[1].responses :
            focus_obs[1].responses[i] # Accepted =>
                /\ ~IsOk(focus_obs[1].result)
                /\ i = Len(focus_obs[1].events)

\* C30: when the sections the call fetched hold no Focus Week, get_focus_day
\* returns the "unable to get any focus weeks" error, makes no POST and
\* leaves the project as it was; a call that makes a POST to create a week
\* fetched at least one Focus Week.
C30_Theorem ==
    /\ (SectionsFetched /\ WeeksBefore = <<>>) =>
          /\ focus_obs[1].result = Err("context", "unable to get any focus weeks")
          /\ Mutations = {}
          /\ remote = focus_obs[1].pre
    /\ (Called /\ Posts("sections") # {}) => WeeksBefore # <<>>

\* The project held one section whose name starts like a week's and does
\* not match; the call fetched it and failed without a POST.
C30_Witness ==
    /\ SectionsFetched
    /\ Len(focus_obs[1].pre.sections) = 1
    /\ focus_obs[1].pre.sections[1].name[1] = WEEK_PREFIX
    /\ WeeksBefore = <<>>
    /\ focus_obs[1].result = Err("context", "unable to get any focus weeks")
    /\ Len(focus_obs[1].events) = 1

\* The places, in the list given to from_tasks, of the tasks due from lo to hi.
DueIn(lo, hi) ==
    {k \in DOMAIN grouping.tasks :
        /\ grouping.tasks[k].due_on # None
        /\ lo <= grouping.tasks[k].due_on[1]
        /\ grouping.tasks[k].due_on[1] <= hi}

\* group holds exactly the tasks due from lo to hi, each once, by due date
\* ascending, tasks of one due date in the order of the list.
HoldsExactly(group, lo, hi) ==
    /\ {group[i].gid : i \in DOMAIN group} = DueIn(lo, hi)
    /\ Len(group) = Cardinality(DueIn(lo, hi))
    /\ \A i \in DOMAIN group : group[i] = grouping.tasks[group[i].gid]
    /\ \A i, j \in DOMAIN group :
          i < j => \/ group[i].due_on[1] < group[j].due_on[1]
                   \/ /\ group[i].due_on[1] = group[j].due_on[1]
                      /\ group[i].gid < group[j].gid

\* The places of the tasks of a group.
Places(group) == {group[i].gid : i \in DOMAIN group}

\* C23: from_tasks(tasks, today) puts in overdue exactly the tasks due
\* before today, in due_today exactly those due today, in due_this_week
\* exactly those due after today and at most 7 days later, each group by
\* due date ascending with equal dates in input order; the groups are
\* pairwise disjoint; a task without due date or due more than 7 days after
\* today is in no group.
C23_Theorem ==
    grouping.grouped # None =>
        LET g == grouping.grouped[1]
            today == grouping.today
        IN  /\ HoldsExactly(g.overdue, 0, today - 1)
            /\ HoldsExactly(g.due_today, today, today)
            /\ HoldsExactly(g.due_this_week, today + 1, today + 7)
            /\ Places(g.overdue) \cap Places(g.due_today) = {}
            /\ Places(g.overdue) \cap Places(g.due_this_week) = {}
            /\ Places(g.due_today) \cap Places(g.due_this_week) = {}
            /\ \A k \in DOMAIN grouping.tasks :
                  (\/ grouping.tasks[k].due_on = None
                   \/ grouping.tasks[k].due_on[1] > today + 7) =>
                      k \notin Places(g.overdue) \cup Places(g.due_today)
                                 \cup Places(g.due_this_week)

\* Three tasks due in the week of day 2, the first and the last on its last
\* day: the second comes first, then the first, then the last.
C23_Witness ==
    /\ grouping.grouped # None
    /\ grouping.today = 2
    /\ grouping.tasks = <<UserTask(1, Some(9)), UserTask(2, Some(8)), UserTask(3, Some(9))>>
    /\ grouping.grouped[1].due_this_week =
          <<UserTask(2, Some(8)), UserTask(1, Some(9)), UserTask(3, Some(9))>>
    /\ grouping.grouped[1].overdue = <<>>

\* The kinds of statistic the routine has a new value for.
NewlySet == {k \in Kinds : routine.new_stats[k] # routine.focus_day.stats[k]}

\* C26: in focus::run a statistic that had a value keeps it; the kinds
\* asked for had no value, and those other than Sleep and Energy are asked
\* for only when force_eod is set, the date is before today or the hour is
\* at least 20; every value newly set is in 0..9.
C26_Theorem ==
    /\ \A k \in Kinds :
          routine.focus_day.stats[k] # None =>
              routine.new_stats[k] = routine.focus_day.stats[k]
    /\ \A k \in NewlySet :
          /\ routine.new_stats[k] # None
          /\ routine.new_stats[k][1] \in 0..9
    /\ \A i \in DOMAIN routine.prompted :
          /\ routine.focus_day.stats[routine.prompted[i]] = None
          /\ routine.prompted[i] \notin {"Sleep", "Energy"} =>
                (routine.force_eod \/ routine.date < routine.today \/ routine.hour >= 20)

\* In the evening of a day whose morning statistics were set, one of them
\* to 12, the five others were asked for and set; the 12 is still there.
C26_Witness ==
    /\ routine.pc = "load"
    /\ routine.hour = 20 /\ ~routine.force_eod /\ routine.date = routine.today
    /\ routine.focus_day.stats["Energy"] = Some(12)
    /\ routine.new_stats["Energy"] = Some(12)
    /\ routine.prompted = <<"Flow", "Hydration", "Health", "Satisfaction", "Stress">>
    /\ routine.new_stats["Flow"] = Some(0)
    /\ routine.new_stats["Stress"] = Some(9)

\* The sync unit of the routine has run to its end.
SyncDone ==
    /\ Len(routine.units) >= 1
    /\ routine.units[1].kind = "sync"
    /\ routine.units[1].state = "finished"

\* The kinds of statistic that have a value after the prompts.
WithValue == {k \in Kinds : routine.new_stats[k] # None}

\* C27: the sync unit makes no request when the new statistics and the new
\* diary equal those of the resolved day; else it makes exactly one PUT, on
\* the day's task, with the new diary as notes and a custom_fields map that
\* has one entry, from field identifier to value, for each statistic with a
\* value and none for the others.
C27_Theorem ==
    SyncDone =>
        IF /\ routine.new_stats = routine.focus_day.stats
           /\ routine.new_diary_entry = routine.focus_day.diary
        THEN routine.units[1].requests = <<>>
        ELSE /\ Len(routine.units[1].requests) = 1
             /\ routine.units[1].requests[1].method = "PUT"
             /\ routine.units[1].requests[1].task = routine.focus_day.gid
             /\ routine.units[1].requests[1].notes = routine.new_diary_entry
             /\ DOMAIN routine.units[1].requests[1].custom_fields = {field_gid(k) : k \in WithValue}
             /\ Cardinality(DOMAIN routine.units[1].requests[1].custom_fields) = Cardinality(WithValue)
             /\ \A k \in WithValue :
                   routine.units[1].requests[1].custom_fields[field_gid(k)] = routine.new_stats[k][1]

\* Only the diary changed: one PUT with the new diary and the two values
\* of the morning.
C27_Witness ==
    /\ SyncDone
    /\ routine.new_stats = routine.focus_day.stats
    /\ WithValue = {"Sleep", "Energy"}
    /\ routine.focus_day.diary = "" /\ routine.new_diary_entry = "d"
    /\ Len(routine.units[1].requests) = 1
    /\ routine.units[1].requests[1].custom_fields =
          [g \in {field_gid("Sleep"), field_gid("Energy")} |->
              IF g = field_gid("Sleep") THEN 4 ELSE 12]
    /\ routine.units[1].result = Some(Ok(TRUE))

\* Whether a unit has run to its end.
Drained(units) == \A i \in DOMAIN units : units[i].state = "finished"

\* No unit was cancelled by the end of the process.
NoneCancelled(units) == \A i \in DOMAIN units : units[i].state # "cancelled"

\* C21: every background unit a command dispatched (the completions of
\* complete::run, the sync unit and the subtask units of focus::run) has
\* finished when the command returns, on every exit path, and none is left
\* running or is cancelled when the process ends.
C21_Claim ==
    /\ routine.pc = "returned" => Drained(routine.units)
    /\ routine.pc = "exited" => NoneCancelled(routine.units)
    /\ (command.pc = "returned" /\ command.name = "complete") => Drained(command.units)
    /\ (command.pc = "exited" /\ command.name = "complete") => NoneCancelled(command.units)

\* Whether one of the units returned an error.
SomeFailed(units) ==
    \E i \in DOMAIN units : units[i].result # None /\ ~IsOk(units[i].result[1])

\* Whether every unit returned without an error.
AllSucceeded(units) ==
    \A i \in DOMAIN units : units[i].result # None /\ IsOk(units[i].result[1])

\* C22: a command of which a background unit failed returns an error,
\* whenever the unit finished, before the join point or after; it returns
\* success only if all its units succeeded.
C22_Claim ==
    /\ (routine.pc = "returned" /\ IsOk(routine.result[1])) => AllSucceeded(routine.units)
    /\ (routine.pc = "returned" /\ SomeFailed(routine.units)) => ~IsOk(routine.result[1])
    /\ (command.pc = "returned" /\ command.name = "complete" /\ IsOk(command.result[1]))
          => AllSucceeded(command.units)
    /\ (command.pc = "returned" /\ command.name = "complete" /\ SomeFailed(command.units))
          => ~IsOk(command.result[1])

\* C28: in cache-only mode complete and add return an error before any
\* prompt and any request: no unit is dispatched and no task is created.
C28_Theorem ==
    (command.pc \notin {"off", "start"} /\ command.use_cache) =>
        /\ command.pc \in {"returned", "exited"}
        /\ ~IsOk(command.result[1])
        /\ command.prompts = 0
        /\ command.units = <<>>
        /\ command.requests = <<>>

\* A command was refused in cache-only mode, whatever else it was given.
C28_Witness ==
    /\ command.pc = "returned"
    /\ command.use_cache
    /\ command.result = Some(Err("cache", <<"Cannot", command.name, "tasks in cache-only mode">>))
    /\ command.name = "add" => command.workspace_gid # None /\ command.arg_name = Some("n")
    /\ command.name = "complete" => command.tasks # None /\ Len(command.tasks[1]) = MaxCached

\* The places of the cached list that were selected before turn j.
SelectedBefore(j) == {command.completed_indices[k] : k \in 1..(j - 1)}

\* The list shown at a turn holds the tasks not selected before it, each
\* once, by due date with the tasks without one last.
ShownRight(j) ==
    LET shown == command.selections[j].shown
    IN  /\ {shown[a].idx : a \in DOMAIN shown} = DOMAIN command.tasks[1] \ SelectedBefore(j)
        /\ Len(shown) = Cardinality(DOMAIN command.tasks[1] \ SelectedBefore(j))
        /\ \A a \in DOMAIN shown : shown[a].task = command.tasks[1][shown[a].idx]
        /\ \A a, b \in DOMAIN shown :
              a < b => \/ shown[b].task.due_on = None
                       \/ /\ shown[a].task.due_on # None
                          /\ shown[a].task.due_on[1] <= shown[b].task.due_on[1]

\* C29: in one run of complete a task is offered only while it has not been
\* selected, so each task gets at most one completion unit and there are
\* never more units than cached tasks; the loop ends when the operator
\* cancels or when every task has been selected; the selected item is the
\* task shown at that position of the list sorted by due date.
C29_Theorem ==
    (command.pc # "off" /\ command.name = "complete") =>
        /\ Len(command.selections) = Len(command.completed_indices)
        /\ Len(command.units) = Len(command.completed_indices)
        /\ \A j \in DOMAIN command.selections :
              /\ ShownRight(j)
              /\ command.selections[j].selected_idx \in DOMAIN command.selections[j].shown
              /\ command.completed_indices[j] =
                    command.selections[j].shown[command.selections[j].selected_idx].idx
              /\ command.units[j].kind = "complete"
              /\ command.units[j].target =
                    command.selections[j].shown[command.selections[j].selected_idx].task.gid
        /\ \A j, k \in DOMAIN command.units :
              j # k => command.units[j].target # command.units[k].target
        /\ command.tasks # None => Len(command.units) <= Len(command.tasks[1])
        /\ command.pc \in {"join", "await"} =>
              \/ command.ended = "esc"
              \/ /\ command.ended = "all"
                 /\ Len(command.completed_indices) = Len(command.tasks[1])

\* Every task of a list that is not in due date order was selected, the
\* last one shown first, and the loop ended for want of tasks.
C29_Witness ==
    /\ command.pc = "join"
    /\ command.name = "complete"
    /\ command.ended = "all"
    /\ Len(command.tasks[1]) = MaxCached
    /\ command.tasks[1][1].due_on = None
    /\ command.tasks[1][MaxCached].due_on = Some(8)
    /\ command.selections[1].selected_idx = MaxCached
    /\ command.completed_indices[1] # MaxCached

\* The requests of focus resolution among those a run made: all but the
\* fetch of the user's task list.
FocusRequests ==
    SelectSeq(snapshot.requests, LAMBDA r : r.path # "user_task_list")

\* C24: without a configured focus project no command (status, summary,
\* cache refresh) makes a request of focus resolution, so none fails for
\* want of the configuration, and the status reports the morning and the
\* evening routine as done.
C24_Claim ==
    (snapshot.pc # "off" /\ snapshot.focus_project_gid = None) =>
        /\ FocusRequests = <<>>
        /\ snapshot.status # None =>
              snapshot.status[1].morning_done /\ snapshot.status[1].evening_done

\* The cache in memory with the three fields of a refresh replaced.
Replaced(cache, r) ==
    [cache EXCEPT !.tasks = Some(r.tasks[2]),
                  !.focus_day = Some(r.focus_day[2]),
                  !.last_updated = Some(r.time)]

\* C25: refresh_cache is all or nothing.  When the fetch of the tasks or
\* the resolution of the focus day fails, the cache in memory and the cache
\* file are as before the call; when both succeed, tasks, focus_day and
\* last_updated are replaced, the credential and the task list id are kept,
\* and that cache is what the file holds.
C25_Claim ==
    snapshot.pc # "off" =>
        \A i \in DOMAIN snapshot.refreshes :
            LET r == snapshot.refreshes[i]
            IN  IF ~IsOk(r.tasks) \/ ~IsOk(r.focus_day)
                THEN r.after = r.before
                ELSE /\ r.after.cache = Replaced(r.before.cache, r)
                     /\ r.after.file = r.after.cache

====
